---- MODULE Spec2Model ----
(***************************************************************************)
(* Reservation and payment-lifecycle engine of core-crm                    *)
(* (apps/sales, apps/properties).                                          *)
(*                                                                         *)
(* The database is modelled as committed state (PostgreSQL, READ           *)
(* COMMITTED): unit rows, payment-plan rows, reservation rows, payment     *)
(* rows and signed contracts.  Each worker process runs one request        *)
(* handler at a time; a handler is split only where another transaction    *)
(* can commit in between (between two SQL statements that take no lock     *)
(* the other needs, or at a blocking row lock).  Writes of an open         *)
(* transaction stay in the process's request record until it commits.      *)
(* Money is in minor units (kurus), dates are day numbers.                 *)
(***************************************************************************)
EXTENDS Integers, Sequences, FiniteSets, TLC

\* ------------------------------------------------------------------ bounds
NUnits == 2
\* workers that serve requests concurrently
NWorkers == 2
\* creation attempts that race for one unit
NRacers == 3

Units == 1..NUnits
Workers == 1..NWorkers
Racers == 1..NRacers
Procs == Workers \cup Racers

\* --------------------------------------------------------- enumerations
\* Property.Status
SATILABILIR == "SATILABILIR"
REZERVE == "REZERVE"
SATILDI == "SATILDI"
PASIF == "PASIF"

\* Reservation.Status
AKTIF == "AKTIF"
SATISA_DONUSTU == "SATISA_DONUSTU"
IPTAL_EDILDI == "IPTAL_EDILDI"

\* Payment.Status
BEKLENIYOR == "BEKLENIYOR"
ALINDI == "ALINDI"
GECIKTI == "GECIKTI"
IPTAL == "IPTAL"

\* Payment.PaymentType
PESINAT == "PESINAT"
TAKSIT == "TAKSIT"

\* PaymentPlan.PlanType
PESIN == "PESIN"
VADELI == "VADELI"

\* ------------------------------------------------------------ JSON values
\* PaymentPlan.details is a free-form JSON object: a value is a number or
\* anything else JSON allows (here: a non-numeric string).
JNum(n) == [t |-> "num", v |-> n]
JStr == [t |-> "str", v |-> 0]

\* dict.get(key, default)
Get(d, k, default) == IF k \in DOMAIN d THEN d[k] ELSE default

\* Python truthiness of a JSON value (None when the key is missing)
Truthy(d, k) == k \in DOMAIN d /\ (d[k].t = "str" \/ d[k].v # 0)

\* Decimal(str(x)) raises decimal.InvalidOperation on a non-numeric string
DecimalRaises(x) == x.t # "num"
DecimalOf(x) == x.v

\* ---------------------------------------------------------------- catalog
\* Prices of the units (created by catalog management); 0 = NULL
cash_price(u) == IF u = 1 THEN 50000000 ELSE 25000000
installment_price(u) == IF u = 1 THEN 60000000 ELSE 0

\* property_instance.installment_price or property_instance.cash_price
InstallmentBase(u) == IF installment_price(u) # 0 THEN installment_price(u) ELSE cash_price(u)

\* round(x / d, 2) on amounts kept in minor units: nearest, ties to even
RoundDiv(x, d) ==
    LET q == x \div d
        r == x % d
    IN  IF 2 * r < d THEN q
        ELSE IF 2 * r > d THEN q + 1
        ELSE IF q % 2 = 0 THEN q ELSE q + 1

\* round(x * m / d, 2), the product never formed: x = q*d + r gives
\* x*m/d = q*m + r*m/d
MulDivRound(x, m, d) ==
    LET q == x \div d
        r == x % d
        whole == q * m + (r * m) \div d
        rest == (r * m) % d
    IN  IF 2 * rest < d THEN whole
        ELSE IF 2 * rest > d THEN whole + 1
        ELSE IF whole % 2 = 0 THEN whole ELSE whole + 1

\* A wizard that never adds the interest
payment_plan_details_no_interest(price, percent, count, rate) ==
    LET down == MulDivRound(price, percent, 100)
        remaining == price - down
        monthly == RoundDiv(remaining, count)
    IN  [installment_price |-> JNum(price),
         down_payment_percent |-> JNum(percent),
         down_payment_amount |-> JNum(down),
         installment_count |-> JNum(count),
         interest_rate |-> JNum(rate),
         remaining_amount |-> JNum(remaining),
         monthly_installment |-> JNum(monthly)]

\* PaymentPlanCreateSerializer.create_payment_plan, VADELI branch, on the
\* base price `price` (percent and rate in whole percent): the details of
\* the installment template
payment_plan_details(price, percent, count, rate) ==
    LET down == MulDivRound(price, percent, 100)
        remaining == price - down
        monthly == IF rate > 0
                     THEN MulDivRound(remaining, 100 + rate, 100 * count)
                     ELSE RoundDiv(remaining, count)
    IN  [installment_price |-> JNum(price),
         down_payment_percent |-> JNum(percent),
         down_payment_amount |-> JNum(down),
         installment_count |-> JNum(count),
         interest_rate |-> JNum(rate),
         remaining_amount |-> JNum(remaining),
         monthly_installment |-> JNum(monthly)]

\* the details of an installment template of unit u
create_payment_plan_details(u, percent, count, rate) ==
    payment_plan_details(InstallmentBase(u), percent, count, rate)

\* PaymentPlanCreateSerializer.is_valid for the wizard's numeric inputs: the
\* field validators (min_value / max_value), then validate(), whose tests
\* are `not attrs.get(...)`
PaymentPlanCreate_error(plan_type, percent, count, rate) ==
    IF percent < 0 \/ percent > 100 THEN "invalid_percent"
    ELSE IF count < 1 THEN "invalid_count"
    ELSE IF rate < 0 THEN "invalid_rate"
    ELSE IF plan_type = VADELI /\ percent = 0 THEN "percent_required"
    ELSE "ok"

\* create_payment_plan: the details of the row it inserts
PaymentPlanCreate_details(u, plan_type, percent, count, rate) ==
    IF plan_type = PESIN
      THEN [cash_price |-> JNum(cash_price(u))]
      ELSE create_payment_plan_details(u, percent, count, rate)

\* PropertyService.calculate_payment_plan divides by installment_count:
\* ZeroDivisionError when it is 0
calculate_payment_plan_raises(count) == count = 0

\* PropertyService.calculate_payment_plan on a unit whose base price is
\* `price`: the dict it returns.  No argument is validated; a negative count
\* divides like any other number.
\* A calculator that cuts the monthly installment to the minor unit instead
\* of rounding it
calculate_payment_plan_truncating(price, percent, count, rate) ==
    LET down == MulDivRound(price, percent, 100)
        remaining == price - down
        total == IF rate > 0 THEN MulDivRound(remaining, 100 + rate, 100)
                 ELSE remaining
        n == IF count < 0 THEN -count ELSE count
        size == total \div n
        monthly == IF count < 0 THEN -size ELSE size
    IN  [installment_price |-> JNum(price),
         down_payment_percent |-> JNum(percent),
         down_payment_amount |-> JNum(down),
         remaining_amount |-> JNum(remaining),
         interest_rate |-> JNum(rate),
         total_with_interest |-> JNum(total),
         installment_count |-> JNum(count),
         monthly_installment |-> JNum(monthly)]

calculate_payment_plan(price, percent, count, rate) ==
    LET down == MulDivRound(price, percent, 100)
        remaining == price - down
        total == IF rate > 0 THEN MulDivRound(remaining, 100 + rate, 100)
                 ELSE remaining
        n == IF count < 0 THEN -count ELSE count
        size == IF rate > 0 THEN MulDivRound(remaining, 100 + rate, 100 * n)
                ELSE RoundDiv(remaining, n)
        monthly == IF count < 0 THEN -size ELSE size
    IN  [installment_price |-> JNum(price),
         down_payment_percent |-> JNum(percent),
         down_payment_amount |-> JNum(down),
         remaining_amount |-> JNum(remaining),
         interest_rate |-> JNum(rate),
         total_with_interest |-> JNum(total),
         installment_count |-> JNum(count),
         monthly_installment |-> JNum(monthly)]

\* Templates that exist before any reservation: a well-formed installment
\* template of unit 1, an installment template of unit 1 whose details were
\* edited into a non-numeric monthly_installment (PaymentPlanSerializer lets
\* details be written freely), and a cash template of unit 2.
InitialPlans ==
    << [property |-> 1, plan_type |-> VADELI,
        details |-> create_payment_plan_details(1, 20, 2, 0)],
       [property |-> 1, plan_type |-> VADELI,
        details |-> [create_payment_plan_details(1, 20, 2, 0)
                        EXCEPT !.monthly_installment = JStr]],
       [property |-> 2, plan_type |-> PESIN,
        details |-> [cash_price |-> JNum(cash_price(2))]] >>

\* ------------------------------------------------------------------ state
VARIABLES
    unitStatus,     \* Property.status of every unit (committed)
    plans,          \* PaymentPlan rows, id = index (committed)
    reservations,   \* Reservation rows, id = index (committed)
    payments,       \* Payment rows, id = index (committed)
    signed,         \* ids of reservations that have a contract in IMZALANDI
    unitLock,       \* holder of the row lock of each Property row, 0 = free
    resLock,        \* holder of the row lock of each Reservation row, 0 = free
    today,          \* timezone.now().date()
    pc,             \* where each worker is in its handler
    req             \* the request a worker is handling, its in-memory
                    \* objects and, once it has finished, its outcome

db == <<unitStatus, plans, reservations, payments, signed>>
vars == <<unitStatus, plans, reservations, payments, signed,
          unitLock, resLock, today, pc, req>>

\* At most one Reservation row can exist per unit (OneToOneField), plus one so
\* that a broken uniqueness would show.
MaxReservations == NUnits + 1
ResIds == 1..MaxReservations

\* timedelta(days=30) between installments
InstallmentPeriod == 30

NoReq == [op |-> "none", unit |-> 0, sel |-> 0, dep |-> 0, res |-> 0,
          reason |-> "", mem_status |-> "", mem_notes |-> <<>>, mem_unit |-> "",
          mem_payments |-> {}, as_of |-> 0, calc |-> <<>>, result |-> <<>>,
          exp |-> <<>>, mem_rows |-> <<>>, count |-> 0,
          outcome |-> ""]

\* The catalog before any reservation: unit 1 is on sale, the others are not
InitialStatus(u) == IF u = 1 THEN SATILABILIR ELSE PASIF

Init ==
    /\ unitStatus = [u \in Units |-> InitialStatus(u)]
    /\ plans = InitialPlans
    /\ reservations = <<>>
    /\ payments = <<>>
    /\ signed = {}
    /\ unitLock = [u \in Units |-> 0]
    /\ resLock = [r \in ResIds |-> 0]
    /\ today = 0
    /\ pc = [p \in Procs |-> "idle"]
    /\ req = [p \in Procs |-> NoReq]

\* --------------------------------------------------------------- queries
ReservationsOf(u) == {r \in 1..Len(reservations) : reservations[r].property = u}
PaymentsOf(r) == {k \in 1..Len(payments) : payments[k].reservation = r}
PlanExists(id) == id \in 1..Len(plans)

\* A remaining amount that takes cash_price whatever the plan type
get_remaining_amount_cash_only(row, plan) ==
    DecimalOf(Get(plan.details, "cash_price", JNum(0))) - row.deposit_amount

\* Reservation.get_remaining_amount
get_remaining_amount(row, plan) ==
    LET total_price == IF plan.plan_type = PESIN
                         THEN Get(plan.details, "cash_price", JNum(0))
                         ELSE Get(plan.details, "installment_price", JNum(0))
    IN  DecimalOf(total_price) - row.deposit_amount

\* ------------------------------------------------------- Property methods
\* Property.is_available
is_available(status) == status = SATILABILIR

\* Property.reserve on an in-memory Property whose status field is `status`:
\* the status it saves (update_fields=['status']), or the row's current
\* status `row` when it saves nothing
reserve(status, row) == IF is_available(status) THEN REZERVE ELSE row

\* What unitStatus holds for a unit whose row has been deleted, where
\* Property.objects.get raises Property.DoesNotExist
NoRow == "DoesNotExist"

PropertyExists(u) == unitStatus[u] # NoRow

\* Property.reserve: whether it issues its UPDATE of the status
reserve_saves(status) == is_available(status)

\* Property.mark_as_sold and Property.cancel_reservation: the status of the
\* row after the call on an instance read with status `status`
Property_mark_as_sold(status) == IF status = REZERVE THEN SATILDI ELSE status

Property_cancel_reservation(status) == IF status = REZERVE THEN SATILABILIR ELSE status

\* ---------------------------------------------------------------- observer
\* An observer that does not release the unit of a cancelled reservation
sync_property_status_no_release(reservation_status, property_status) ==
    IF reservation_status = AKTIF /\ property_status # REZERVE
      THEN REZERVE
    ELSE IF reservation_status = SATISA_DONUSTU /\ property_status # SATILDI
      THEN SATILDI
    ELSE property_status

\* An observer that puts the unit of a cancelled reservation on sale again
\* whatever its status
sync_property_status_always_release(reservation_status, property_status) ==
    IF reservation_status = AKTIF /\ property_status # REZERVE
      THEN REZERVE
    ELSE IF reservation_status = SATISA_DONUSTU /\ property_status # SATILDI
      THEN SATILDI
    ELSE IF reservation_status = IPTAL_EDILDI
      THEN SATILABILIR
    ELSE property_status

\* An observer whose cancellation branch also takes an available unit back
\* to REZERVE
sync_property_status_toggle(reservation_status, property_status) ==
    IF reservation_status = AKTIF /\ property_status # REZERVE
      THEN REZERVE
    ELSE IF reservation_status = SATISA_DONUSTU /\ property_status # SATILDI
      THEN SATILDI
    ELSE IF reservation_status = IPTAL_EDILDI
      THEN (IF property_status = REZERVE THEN SATILABILIR
            ELSE IF property_status = SATILABILIR THEN REZERVE
            ELSE property_status)
    ELSE property_status

\* sync_property_status_on_reservation_change: the unit status it leaves,
\* from the saved reservation's status and the unit row read under the lock
sync_property_status(reservation_status, property_status) ==
    IF reservation_status = AKTIF /\ property_status # REZERVE
      THEN REZERVE
    ELSE IF reservation_status = SATISA_DONUSTU /\ property_status # SATILDI
      THEN SATILDI
    ELSE IF reservation_status = IPTAL_EDILDI /\ property_status # SATILABILIR
      THEN (IF property_status = REZERVE THEN SATILABILIR ELSE property_status)
    ELSE property_status

\* The exception the observer's select_for_update().get (line 26) raises, ""
\* when it returns the row
observer_exception(property_status) ==
    IF property_status = NoRow THEN "Property.DoesNotExist" ELSE ""

\* The observer's except clauses (lines 50-56): whether the exception leaves
\* the observer
observer_propagates(exc) == exc # "Property.DoesNotExist"

\* ------------------------------------------------------------------ ledger
NewPayment(r, ptype, amount, status, due, paid, number, method) ==
    [reservation |-> r, payment_type |-> ptype, amount |-> amount,
     status |-> status, due_date |-> due, payment_date |-> paid,
     installment_number |-> number, payment_method |-> method]

\* ReservationCreateSerializer._create_installment_payments raises before any
\* row is written when installment_count or monthly_installment is not numeric
InstallmentPaymentsRaises(details) ==
    \/ Get(details, "installment_count", JNum(0)).t # "num"
    \/ DecimalRaises(Get(details, "monthly_installment", JNum(0)))

\* A schedule whose first installment is due on the reservation date
InstallmentRows_due_at_once(r, details, reservation_date) ==
    LET count == Get(details, "installment_count", JNum(0)).v
        monthly == DecimalOf(Get(details, "monthly_installment", JNum(0)))
    IN  [i \in 1..count |->
            NewPayment(r, TAKSIT, monthly, BEKLENIYOR,
                       reservation_date + InstallmentPeriod * (i - 1), <<>>, <<i>>, "")]

\* the TAKSIT rows the loop over range(1, installment_count + 1) creates
InstallmentRows(r, details, reservation_date) ==
    LET count == Get(details, "installment_count", JNum(0)).v
        monthly == DecimalOf(Get(details, "monthly_installment", JNum(0)))
        first == reservation_date + InstallmentPeriod
    IN  [i \in 1..count |->
            NewPayment(r, TAKSIT, monthly, BEKLENIYOR,
                       first + InstallmentPeriod * (i - 1), <<>>, <<i>>, "")]

\* Reservation.objects.create(...): status defaults to AKTIF,
\* reservation_date to now
NewReservation(u, planId, dep) ==
    [property |-> u, status |-> AKTIF, payment_plan_selected |-> planId,
     deposit_amount |-> dep, deposit_payment_method |-> "NAKIT",
     notes |-> <<>>, reservation_date |-> today, expiry_date |-> <<>>]

\* ------------------------------------------------------------- handlers
\* A handler ends: its response (success or the error raised) is ready
Finish(p, outcome) ==
    /\ pc' = [pc EXCEPT ![p] = "done"]
    /\ req' = [req EXCEPT ![p] = [NoReq EXCEPT !.op = req[p].op, !.unit = req[p].unit,
                                             !.sel = req[p].sel, !.res = req[p].res,
                                             !.outcome = outcome]]

\* The response is sent; the worker takes the next request
respond(p) ==
    /\ pc[p] = "done"
    /\ pc' = [pc EXCEPT ![p] = "idle"]
    /\ req' = [req EXCEPT ![p] = NoReq]
    /\ UNCHANGED <<db, unitLock, resLock, today>>

\* -------------------------------------------------- reservation creation
\* payment_plan_selected of a request: a template id, 0 (no such id), or the
\* synthesis sentinels -1 / -2
Selections == (-2)..Len(InitialPlans)
\* deposit_amount of a request: the down payment of the unit-1 template, or
\* (cash synthesis) also the unit's cash price
DepositAmounts(u, sel) == IF sel = -1 THEN {cash_price(u), 12000000} ELSE {12000000}

\* validate() without the check of the deposit of a cash reservation
validate_error_any_deposit(u, sel, dep) ==
    IF ReservationsOf(u) # {} THEN "unique"
    ELSE IF ~is_available(unitStatus[u]) THEN "unavailable"
    ELSE IF sel > 0 /\ ~PlanExists(sel) THEN "plan_not_found"
    ELSE IF sel > 0 /\ plans[sel].property # u THEN "plan_not_owned"
    ELSE "ok"

\* validate() without the check that the template belongs to the unit
validate_error_any_owner(u, sel, dep) ==
    IF ReservationsOf(u) # {} THEN "unique"
    ELSE IF ~is_available(unitStatus[u]) THEN "unavailable"
    ELSE IF sel > 0 /\ ~PlanExists(sel) THEN "plan_not_found"
    ELSE IF sel = -1 /\ dep # cash_price(u) THEN "deposit_mismatch"
    ELSE "ok"

\* ReservationCreateSerializer.is_valid: the UniqueValidator that the
\* ModelSerializer puts on the one-to-one field property, validate_property,
\* then validate()
validate_error(u, sel, dep) ==
    IF ReservationsOf(u) # {} THEN "unique"
    ELSE IF ~is_available(unitStatus[u]) THEN "unavailable"
    ELSE IF sel > 0 /\ ~PlanExists(sel) THEN "plan_not_found"
    ELSE IF sel > 0 /\ plans[sel].property # u THEN "plan_not_owned"
    ELSE IF sel = -1 /\ dep # cash_price(u) THEN "deposit_mismatch"
    ELSE "ok"

validate_create(p, u, sel, dep) ==
    /\ pc[p] = "idle"
    /\ LET request == [NoReq EXCEPT !.op = "create", !.unit = u, !.sel = sel]
       IN  IF validate_error(u, sel, dep) = "ok"
             THEN /\ pc' = [pc EXCEPT ![p] = "validated"]
                  /\ req' = [req EXCEPT ![p] = [request EXCEPT !.dep = dep,
                                                     !.mem_unit = unitStatus[u]]]
             ELSE /\ pc' = [pc EXCEPT ![p] = "done"]
                  /\ req' = [req EXCEPT ![p] = [request EXCEPT
                                                  !.outcome = validate_error(u, sel, dep)]]
    /\ UNCHANGED <<db, unitLock, resLock, today>>

\* The template the request resolves to (create, lines 243-263): a row that
\* the transaction inserts, or an existing row
SynthesizedPlan(u, sel) ==
    IF sel = -1
      THEN [property |-> u, plan_type |-> PESIN,
            details |-> [cash_price |-> JNum(cash_price(u))]]
      ELSE [property |-> u, plan_type |-> VADELI,
            details |-> [installment_price |-> JNum(InstallmentBase(u))]]

\* A creation whose select_for_update locks the whole Property table
create_lock_table(p) ==
    /\ pc[p] = "validated"
    /\ LET sel == req[p].sel
           u == req[p].unit
       IN  IF sel \notin {-1, -2} /\ ~PlanExists(sel)
             THEN /\ Finish(p, "invalid_plan")
                  /\ UNCHANGED unitLock
             ELSE /\ \A v \in Units : unitLock[v] = 0
                  /\ unitLock' = [unitLock EXCEPT ![u] = p]
                  /\ pc' = [pc EXCEPT ![p] = "locked"]
                  /\ UNCHANGED req
    /\ UNCHANGED <<db, resLock, today>>

\* create up to Property.objects.select_for_update().get(...): the template
\* is resolved inside the transaction, then the call waits for the unit's
\* row lock
create_lock(p) ==
    /\ pc[p] = "validated"
    /\ LET sel == req[p].sel
           u == req[p].unit
       IN  IF sel \notin {-1, -2} /\ ~PlanExists(sel)
             THEN /\ Finish(p, "invalid_plan")
                  /\ UNCHANGED unitLock
             ELSE /\ unitLock[u] = 0
                  /\ unitLock' = [unitLock EXCEPT ![u] = p]
                  /\ pc' = [pc EXCEPT ![p] = "locked"]
                  /\ UNCHANGED req
    /\ UNCHANGED <<db, resLock, today>>

\* A creation that re-checks the instance it validated instead of the row it
\* has locked
locked_status_stale(p) == req[p].mem_unit

\* The status of the row returned by select_for_update().get(): the
\* committed row, read once the lock is held
locked_status(p) == unitStatus[req[p].unit]

\* The transactions the INSERT of Reservation.objects.create waits for.
\* Reservation.property is a OneToOneField, so the INSERT checks the unique
\* index on property_id, and a row with the same property that another
\* transaction has updated and not yet committed makes the check wait for
\* that transaction.  A creation that fails the re-check never inserts.
InsertWaits(p) ==
    IF is_available(locked_status(p))
      THEN {q \in Procs \ {p} :
              \E r \in ReservationsOf(req[p].unit) : resLock[r] = q}
      ELSE {}

\* create from the re-check to the end of the transaction.  The outcome is
\* "ok" (commit) or the error that leaves the atomic block (rollback).
create_outcome(p) ==
    LET u == req[p].unit
        sel == req[p].sel
        plan == IF sel \in {-1, -2} THEN SynthesizedPlan(u, sel) ELSE plans[sel]
    IN  IF ~is_available(locked_status(p)) THEN "conflict"
        ELSE IF ReservationsOf(u) # {} \/ Len(reservations) >= MaxReservations
          THEN "integrity_error"
        ELSE IF /\ plan.plan_type = VADELI
                /\ Truthy(plan.details, "installment_count")
                /\ InstallmentPaymentsRaises(plan.details)
          THEN "schedule_error"
        ELSE "ok"

create_body(p) ==
    /\ pc[p] = "locked"
    /\ InsertWaits(p) = {}
    /\ LET u == req[p].unit
           sel == req[p].sel
           synth == sel \in {-1, -2}
           plan == IF synth THEN SynthesizedPlan(u, sel) ELSE plans[sel]
           planId == IF synth THEN Len(plans) + 1 ELSE sel
           r == Len(reservations) + 1
           row == [NewReservation(u, planId, req[p].dep)
                      EXCEPT !.expiry_date = req[p].exp]
           \* post_save observer, then property_to_update.reserve() on the
           \* instance read at lock time
           afterSignal == sync_property_status(AKTIF, locked_status(p))
           afterReserve == reserve(locked_status(p), afterSignal)
           rows == IF plan.plan_type = VADELI /\ Truthy(plan.details, "installment_count")
                     THEN InstallmentRows(r, plan.details, today)
                     ELSE <<>>
       IN  IF create_outcome(p) = "ok"
             THEN /\ plans' = IF synth THEN Append(plans, plan) ELSE plans
                  /\ reservations' = Append(reservations, row)
                  /\ unitStatus' = [unitStatus EXCEPT ![u] = afterReserve]
                  /\ payments' = payments \o rows
                  /\ UNCHANGED signed
             ELSE UNCHANGED db
    /\ Finish(p, create_outcome(p))
    /\ unitLock' = [unitLock EXCEPT ![req[p].unit] = 0]
    /\ UNCHANGED <<resLock, today>>

\* ------------------------- ReservationService.create_reservation_with_payments
\* ReservationService._create_installment_schedule: whether it raises before
\* any row is written, or after the PESINAT row and before the TAKSIT rows
ScheduleRaisesEarly(details) ==
    DecimalRaises(Get(details, "down_payment_amount", JNum(0)))

ScheduleRaisesLate(details) ==
    \/ DecimalRaises(Get(details, "monthly_installment", JNum(0)))
    \/ Get(details, "installment_count", JNum(0)).t # "num"

\* the PESINAT row of lines 99-109
DownPaymentRows(r, details, row) ==
    LET down == DecimalOf(Get(details, "down_payment_amount", JNum(0)))
    IN  IF down > 0
          THEN << NewPayment(r, PESINAT, down, ALINDI, row.reservation_date,
                             <<row.reservation_date>>, <<>>, row.deposit_payment_method) >>
          ELSE <<>>

\* the rows _create_installment_schedule has written when it returns or raises
ScheduleRows(r, details, row) ==
    IF ScheduleRaisesEarly(details) THEN <<>>
    ELSE IF ScheduleRaisesLate(details) THEN DownPaymentRows(r, details, row)
    ELSE DownPaymentRows(r, details, row) \o InstallmentRows(r, details, row.reservation_date)

\* The caller holds a Property instance and a PaymentPlan of that unit, both
\* read before the call
service_begin(p, u, planId, dep) ==
    /\ pc[p] = "idle"
    /\ PlanExists(planId)
    /\ plans[planId].property = u
    /\ pc' = [pc EXCEPT ![p] = "service_called"]
    /\ req' = [req EXCEPT ![p] = [NoReq EXCEPT !.op = "service_create", !.unit = u,
                                   !.sel = planId, !.dep = dep,
                                   !.mem_unit = unitStatus[u]]]
    /\ UNCHANGED <<db, unitLock, resLock, today>>

\* A service-layer creation on a table without the one-to-one constraint
service_outcome_no_unique(p) ==
    LET plan == plans[req[p].sel]
    IN  IF ~is_available(req[p].mem_unit) THEN "unavailable"
        ELSE IF Len(reservations) >= MaxReservations THEN "integrity_error"
        ELSE IF /\ plan.plan_type = VADELI
                /\ (ScheduleRaisesEarly(plan.details) \/ ScheduleRaisesLate(plan.details))
          THEN "schedule_error"
        ELSE "ok"

\* What create_reservation_with_payments returns: "ok", or the reason of its
\* (None, message)
service_outcome(p) ==
    LET u == req[p].unit
        plan == plans[req[p].sel]
    IN  IF ~is_available(req[p].mem_unit) THEN "unavailable"
        ELSE IF ReservationsOf(u) # {} \/ Len(reservations) >= MaxReservations
          THEN "integrity_error"
        ELSE IF /\ plan.plan_type = VADELI
                /\ (ScheduleRaisesEarly(plan.details) \/ ScheduleRaisesLate(plan.details))
          THEN "schedule_error"
        ELSE "ok"

\* Whether the atomic block commits what the call has written: a database
\* error marks the transaction for rollback; any other exception is caught
\* inside the block (lines 80-83), which then ends normally
service_commits(outcome) == outcome \in {"ok", "schedule_error"}

\* The call itself: the test on the caller's instance, the INSERT, the
\* observer (which waits for the unit's row lock), the schedule, and the end
\* of the atomic block
service_create(p) ==
    /\ pc[p] = "service_called"
    /\ PropertyExists(req[p].unit)
    /\ LET u == req[p].unit
           plan == plans[req[p].sel]
           r == Len(reservations) + 1
           row == NewReservation(u, req[p].sel, req[p].dep)
           rows == IF plan.plan_type = VADELI THEN ScheduleRows(r, plan.details, row)
                   ELSE <<>>
           outcome == service_outcome(p)
       IN  /\ service_commits(outcome) => unitLock[u] = 0
           /\ IF service_commits(outcome)
                 THEN /\ reservations' = Append(reservations, row)
                      /\ unitStatus' = [unitStatus EXCEPT
                                           ![u] = sync_property_status(AKTIF, unitStatus[u])]
                      /\ payments' = payments \o rows
                      /\ UNCHANGED <<plans, signed>>
                 ELSE UNCHANGED db
           /\ Finish(p, outcome)
    /\ UNCHANGED <<unitLock, resLock, today>>

\* The same call when the unit's row has been deleted since the caller read
\* it.  The INSERT passes (the foreign key is checked at commit) and the
\* observer runs: either its exception reaches the except clause of line 80,
\* or the call goes on to the schedule.
service_create_unit_gone(p) ==
    /\ pc[p] = "service_called"
    /\ ~PropertyExists(req[p].unit)
    /\ LET exc == observer_exception(unitStatus[req[p].unit])
       IN  IF ~is_available(req[p].mem_unit)
             THEN Finish(p, "unavailable")
             ELSE /\ pc' = [pc EXCEPT ![p] = IF exc # "" /\ observer_propagates(exc)
                                               THEN "service_except"
                                               ELSE "service_schedule"]
                  /\ UNCHANGED req
    /\ UNCHANGED <<db, unitLock, resLock, today>>

\* The end of that atomic block: the commit checks the foreign key of the
\* inserted reservation, fails, and everything is rolled back
service_end_unit_gone(p) ==
    /\ pc[p] \in {"service_except", "service_schedule"}
    /\ Finish(p, "integrity_error")
    /\ UNCHANGED <<db, unitLock, resLock, today>>

\* ------------------------------------------- convert_to_sale and cancel
\* The reason a cancel request carries (ReservationCancelSerializer requires
\* one; the expiry task passes a fixed one)
Reasons == {"musteri vazgecti"}

\* ReservationViewSet.get_object (or the queryset of a task): the handler's
\* in-memory Reservation, read without a lock
load_reservation(p, r, op, reason) ==
    /\ pc[p] = "idle"
    /\ r \in 1..Len(reservations)
    /\ reservations[r].status # NoRow
    /\ pc' = [pc EXCEPT ![p] = "loaded"]
    /\ req' = [req EXCEPT ![p] = [NoReq EXCEPT !.op = op, !.res = r,
                                   !.unit = reservations[r].property,
                                   !.reason = reason,
                                   !.mem_status = reservations[r].status,
                                   !.mem_notes = reservations[r].notes]]
    /\ UNCHANGED <<db, unitLock, resLock, today>>

\* Reservation.convert_to_sale up to self.save(update_fields=['status']):
\* the status test on the in-memory object, then the UPDATE, which waits for
\* the reservation's row lock
convert_to_sale_write(p) ==
    /\ pc[p] = "loaded"
    /\ req[p].op = "convert"
    /\ IF req[p].mem_status # AKTIF
         THEN /\ Finish(p, "invalid_transition")
              /\ UNCHANGED resLock
         ELSE /\ resLock[req[p].res] = 0
              /\ resLock' = [resLock EXCEPT ![req[p].res] = p]
              /\ pc' = [pc EXCEPT ![p] = "convert_signal"]
              /\ UNCHANGED req
    /\ UNCHANGED <<db, unitLock, today>>

\* post_save observer of that save and the commit: the observer waits for the
\* unit's row lock, reads the unit and writes its status
convert_to_sale_signal(p) ==
    /\ pc[p] = "convert_signal"
    /\ LET r == req[p].res
           u == req[p].unit
       IN  /\ unitLock[u] = 0
           /\ reservations' = [reservations EXCEPT ![r].status = SATISA_DONUSTU]
           /\ unitStatus' = [unitStatus EXCEPT
                                ![u] = sync_property_status(SATISA_DONUSTU, unitStatus[u])]
           /\ resLock' = [resLock EXCEPT ![r] = 0]
    /\ Finish(p, "ok")
    /\ UNCHANGED <<plans, payments, signed, unitLock, today>>

HasPaidPayment(r) == \E k \in PaymentsOf(r) : payments[k].status = ALINDI

\* A cancel that tests the status only and skips the two guard queries
cancel_guard_error_status_only(p) ==
    IF req[p].mem_status # AKTIF THEN "invalid_transition" ELSE "ok"

\* Reservation.cancel, lines 163-175: the status test on the in-memory object
\* and the two guard queries
cancel_guard_error(p) ==
    IF req[p].mem_status # AKTIF THEN "invalid_transition"
    ELSE IF HasPaidPayment(req[p].res) THEN "guard_paid"
    ELSE IF req[p].res \in signed THEN "guard_signed"
    ELSE "ok"

cancel_guard(p) ==
    /\ pc[p] = "loaded"
    /\ req[p].op = "cancel"
    /\ IF cancel_guard_error(p) = "ok"
         THEN /\ pc' = [pc EXCEPT ![p] = "cancel_write"]
              /\ UNCHANGED req
         ELSE Finish(p, cancel_guard_error(p))
    /\ UNCHANGED <<db, unitLock, resLock, today>>

\* self.save(update_fields=['status', 'notes']): the UPDATE waits for the
\* reservation's row lock
cancel_write(p) ==
    /\ pc[p] = "cancel_write"
    /\ resLock[req[p].res] = 0
    /\ resLock' = [resLock EXCEPT ![req[p].res] = p]
    /\ pc' = [pc EXCEPT ![p] = "cancel_signal"]
    /\ UNCHANGED <<db, unitLock, today, req>>

\* A bulk update that filters on BEKLENIYOR alone
VoidedBy_pending_only(r) == {k \in PaymentsOf(r) : payments[k].status = BEKLENIYOR}

\* the payments the bulk update of lines 182-184 turns to IPTAL
VoidedBy(r) == {k \in PaymentsOf(r) : payments[k].status \in {BEKLENIYOR, GECIKTI}}

\* post_save observer of that save, the bulk update of the payments, commit
cancel_signal(p) ==
    /\ pc[p] = "cancel_signal"
    /\ LET r == req[p].res
           u == req[p].unit
           notes == IF req[p].reason # "" THEN Append(req[p].mem_notes, req[p].reason)
                    ELSE req[p].mem_notes
       IN  /\ unitLock[u] = 0
           /\ reservations' = [reservations EXCEPT ![r].status = IPTAL_EDILDI,
                                                    ![r].notes = notes]
           /\ unitStatus' = [unitStatus EXCEPT
                                ![u] = sync_property_status(IPTAL_EDILDI, unitStatus[u])]
           /\ payments' = [k \in 1..Len(payments) |->
                              IF k \in VoidedBy(r)
                                THEN [payments[k] EXCEPT !.status = IPTAL]
                                ELSE payments[k]]
           /\ resLock' = [resLock EXCEPT ![r] = 0]
    /\ Finish(p, "ok")
    /\ UNCHANGED <<plans, signed, unitLock, today>>

\* ------------------------------------------------------------- payments
\* payment_date / payment_method a mark_as_paid request may carry
PaymentDates == {<<>>, <<7>>}
PaymentMethods == {"", "NAKIT"}

\* Payment.mark_as_paid: the row it saves
mark_as_paid(payment, payment_date, payment_method) ==
    [payment EXCEPT !.status = ALINDI,
                    !.payment_date = IF payment_date # <<>> THEN payment_date ELSE <<today>>,
                    !.payment_method = IF payment_method # "" THEN payment_method ELSE @]

\* PaymentViewSet.mark_as_paid: a request without payment_method is refused
\* (400, nothing written); otherwise one autocommitted UPDATE
mark_as_paid_view(k, payment_date, payment_method) ==
    /\ k \in 1..Len(payments)
    /\ payment_method # ""
    /\ payments' = [payments EXCEPT
                        ![k] = mark_as_paid(payments[k], payment_date, payment_method)]
    /\ UNCHANGED <<unitStatus, plans, reservations, signed, unitLock, resLock,
                   today, pc, req>>

\* ContractViewSet.mark_as_signed on a contract of reservation r
mark_as_signed(r) ==
    /\ r \in 1..Len(reservations)
    /\ signed' = signed \cup {r}
    /\ UNCHANGED <<unitStatus, plans, reservations, payments, unitLock, resLock,
                   today, pc, req>>

\* ------------------------------------------------------- specification
CreateReservation(p) ==
    \/ \E u \in Units, sel \in Selections : \E dep \in DepositAmounts(u, sel) :
            validate_create(p, u, sel, dep)
    \/ create_lock(p)
    \/ create_body(p)

ConvertToSale(p) ==
    \/ \E r \in ResIds : load_reservation(p, r, "convert", "")
    \/ convert_to_sale_write(p)
    \/ convert_to_sale_signal(p)

Cancel(p) ==
    \/ \E r \in ResIds, reason \in Reasons : load_reservation(p, r, "cancel", reason)
    \/ cancel_guard(p)
    \/ cancel_write(p)
    \/ cancel_signal(p)

MarkAsPaid ==
    \E k \in 1..Len(payments), d \in PaymentDates, m \in PaymentMethods :
        mark_as_paid_view(k, d, m)

MarkAsSigned == \E r \in ResIds : mark_as_signed(r)

\* The request handlers served by the workers, in any interleaving
Next ==
    \/ \E p \in Workers : CreateReservation(p) \/ ConvertToSale(p) \/ Cancel(p) \/ respond(p)
    \/ MarkAsPaid
    \/ MarkAsSigned

Spec == Init /\ [][Next]_vars

\* The creation race: every racer makes one well-formed creation request for
\* unit 1 (a template of the unit that can be scheduled, or a synthesis
\* sentinel with the deposit it requires); nothing else runs
RaceUnit == CHOOSE u \in Units : InitialStatus(u) = SATILABILIR
RaceSelections == {sel \in Selections :
                     \/ sel \in {-1, -2}
                     \/ /\ sel > 0
                        /\ InitialPlans[sel].property = RaceUnit
                        /\ ~InstallmentPaymentsRaises(InitialPlans[sel].details)}
RaceDeposit(sel) == IF sel = -1 THEN cash_price(RaceUnit) ELSE 12000000

RaceNext ==
    \E p \in Racers :
        \/ \E sel \in RaceSelections : validate_create(p, RaceUnit, sel, RaceDeposit(sel))
        \/ create_lock(p)
        \/ create_body(p)

SpecRace == Init /\ [][RaceNext]_vars

\* The handlers together with callers of the service-layer creation
ServiceCreate(p) ==
    \/ \E u \in Units, planId \in 1..Len(InitialPlans) : service_begin(p, u, planId, 12000000)
    \/ service_create(p)

ServiceNext ==
    \/ Next
    \/ \E p \in Workers : ServiceCreate(p)

SpecService == Init /\ [][ServiceNext]_vars

\* ------------------------------------------- two units, clock and sweep
\* the last day the clock reaches
MaxToday == 31

\* Days pass, up to the day `last`: the clock moves past the next due date
tick_until(last) ==
    /\ today < last
    /\ today' = today + InstallmentPeriod + 1
    /\ UNCHANGED <<db, unitLock, resLock, pc, req>>

tick == tick_until(MaxToday)

\* PaymentService.get_overdue_payments: the ids its query returns on date asOf
get_overdue_payments(ps, asOf) ==
    {k \in 1..Len(ps) : ps[k].status = BEKLENIYOR /\ ps[k].due_date < asOf}

\* A sweep that also puts the payments it finds GECIKTI back to BEKLENIYOR
OverdueSwept_toggle(ps, asOf) ==
    [k \in 1..Len(ps) |->
        IF ps[k].status = BEKLENIYOR /\ ps[k].due_date < asOf
          THEN [ps[k] EXCEPT !.status = GECIKTI]
        ELSE IF ps[k].status = GECIKTI
          THEN [ps[k] EXCEPT !.status = BEKLENIYOR]
        ELSE ps[k]]

\* A sweep whose filter is the due date alone
OverdueSwept_any_status(ps, asOf) ==
    [k \in 1..Len(ps) |->
        IF ps[k].due_date < asOf
          THEN [ps[k] EXCEPT !.status = GECIKTI]
          ELSE ps[k]]

\* The payments table after the bulk UPDATE of auto_update_overdue_payments
\* (filter status=BEKLENIYOR, due_date__lt=today; update status=GECIKTI)
OverdueSwept(ps, asOf) ==
    [k \in 1..Len(ps) |->
        IF ps[k].status = BEKLENIYOR /\ ps[k].due_date < asOf
          THEN [ps[k] EXCEPT !.status = GECIKTI]
          ELSE ps[k]]

\* PaymentService.auto_update_overdue_payments: one atomic bulk UPDATE
auto_update_overdue_payments ==
    /\ payments' = OverdueSwept(payments, today)
    /\ UNCHANGED <<unitStatus, plans, reservations, signed, unitLock, resLock,
                   today, pc, req>>

\* tasks.check_overdue_payments up to the start of its loop: the queryset is
\* evaluated once, on today's date, into Payment instances read as BEKLENIYOR
check_overdue_select(p) ==
    /\ pc[p] = "idle"
    /\ LET found == get_overdue_payments(payments, today)
           request == [NoReq EXCEPT !.op = "check_overdue", !.as_of = today]
       IN  IF found = {}
             THEN /\ pc' = [pc EXCEPT ![p] = "done"]
                  /\ req' = [req EXCEPT ![p] = [request EXCEPT !.outcome = "ok"]]
             ELSE /\ pc' = [pc EXCEPT ![p] = "sweeping"]
                  /\ req' = [req EXCEPT ![p] = [request EXCEPT !.mem_payments = found]]
    /\ UNCHANGED <<db, unitLock, resLock, today>>

\* One turn of the loop: the instance's status is BEKLENIYOR, so it is set
\* to GECIKTI and saved with update_fields=['status'], an UPDATE by id.  The
\* task returns after the last instance.
check_overdue_save(p) ==
    /\ pc[p] = "sweeping"
    /\ LET k == CHOOSE i \in req[p].mem_payments :
                    \A j \in req[p].mem_payments : i <= j
           left == req[p].mem_payments \ {k}
       IN  /\ payments' = [payments EXCEPT ![k].status = GECIKTI]
           /\ IF left = {}
                 THEN /\ pc' = [pc EXCEPT ![p] = "done"]
                      /\ req' = [req EXCEPT ![p] = [NoReq EXCEPT !.op = req[p].op,
                                                            !.as_of = req[p].as_of,
                                                            !.outcome = "ok"]]
                 ELSE /\ req' = [req EXCEPT ![p].mem_payments = left]
                      /\ UNCHANGED pc
    /\ UNCHANGED <<unitStatus, plans, reservations, signed, unitLock, resLock, today>>

\* A catalog in which every unit is on sale and has an installment template
\* of its own (20 % down, two installments)
UnitTemplates == [u \in Units |-> [property |-> u, plan_type |-> VADELI,
                                    details |-> create_payment_plan_details(u, 20, 2, 0)]]

InitLedgers ==
    /\ unitStatus = [u \in Units |-> SATILABILIR]
    /\ plans = UnitTemplates
    /\ reservations = <<>>
    /\ payments = <<>>
    /\ signed = {}
    /\ unitLock = [u \in Units |-> 0]
    /\ resLock = [r \in ResIds |-> 0]
    /\ today = 0
    /\ pc = [p \in Procs |-> "idle"]
    /\ req = [p \in Procs |-> NoReq]

\* Reservations of several units with their ledgers: creation from the
\* unit's template, cancel, mark_as_paid, the overdue sweep
LedgersNext ==
    \/ \E p \in Workers :
          \/ \E u \in Units : validate_create(p, u, u, 12000000)
          \/ create_lock(p)
          \/ create_body(p)
          \/ Cancel(p)
          \/ respond(p)
    \/ \E k \in 1..Len(payments) : mark_as_paid_view(k, <<>>, "NAKIT")
    \/ auto_update_overdue_payments
    \/ tick

SpecLedgers == InitLedgers /\ [][LedgersNext]_vars

\* the last day on which a sweep runs, past the due date of every
\* installment of a reservation made on the first day
LastSweepDay == 62

\* The ledger of one unit's reservation under both overdue sweeps, run
\* while payments are marked paid and the reservation is cancelled
SweepNext ==
    \/ \E p \in Workers :
          \/ validate_create(p, RaceUnit, RaceUnit, 12000000)
          \/ create_lock(p)
          \/ create_body(p)
          \/ Cancel(p)
          \/ check_overdue_select(p)
          \/ check_overdue_save(p)
          \/ respond(p)
    \/ \E k \in 1..Len(payments) : mark_as_paid_view(k, <<>>, "NAKIT")
    \/ auto_update_overdue_payments
    \/ tick_until(LastSweepDay)

SpecSweep == InitLedgers /\ [][SweepNext]_vars

\* ------------------------------------------------------ catalog writers
\* PropertyService.reserve_property / cancel_reservation / mark_as_sold: each
\* one transaction that locks the unit's row, tests its status and calls the
\* Property method; no reservation is read
reserve_property(u) ==
    /\ unitLock[u] = 0
    /\ unitStatus' = [unitStatus EXCEPT
                         ![u] = IF ~is_available(unitStatus[u]) THEN unitStatus[u]
                                ELSE reserve(unitStatus[u], unitStatus[u])]
    /\ UNCHANGED <<plans, reservations, payments, signed, unitLock, resLock,
                   today, pc, req>>

cancel_reservation(u) ==
    /\ unitLock[u] = 0
    /\ unitStatus' = [unitStatus EXCEPT
                         ![u] = IF unitStatus[u] # REZERVE THEN unitStatus[u]
                                ELSE Property_cancel_reservation(unitStatus[u])]
    /\ UNCHANGED <<plans, reservations, payments, signed, unitLock, resLock,
                   today, pc, req>>

mark_as_sold(u) ==
    /\ unitLock[u] = 0
    /\ unitStatus' = [unitStatus EXCEPT
                         ![u] = IF unitStatus[u] # REZERVE THEN unitStatus[u]
                                ELSE Property_mark_as_sold(unitStatus[u])]
    /\ UNCHANGED <<plans, reservations, payments, signed, unitLock, resLock,
                   today, pc, req>>

\* PropertyViewSet.update / partial_update with PropertyCreateUpdateSerializer,
\* whose writable fields include status: the UPDATE of the unit's row
update_property(u, status) ==
    /\ unitLock[u] = 0
    /\ unitStatus' = [unitStatus EXCEPT ![u] = status]
    /\ UNCHANGED <<plans, reservations, payments, signed, unitLock, resLock,
                   today, pc, req>>

\* Both creation paths (for one unit, from its template), convert_to_sale and
\* cancel on a catalog whose units are also written by PropertyService and by
\* the unit's update endpoint
CatalogNext ==
    \/ \E p \in Workers :
          \/ validate_create(p, RaceUnit, RaceUnit, 12000000)
          \/ create_lock(p)
          \/ create_body(p)
          \/ service_begin(p, RaceUnit, RaceUnit, 12000000)
          \/ service_create(p)
          \/ ConvertToSale(p)
          \/ Cancel(p)
          \/ respond(p)
    \/ \E u \in Units :
          \/ reserve_property(u)
          \/ cancel_reservation(u)
          \/ mark_as_sold(u)
          \/ \E status \in {SATILABILIR, REZERVE, SATILDI, PASIF} : update_property(u, status)

SpecCatalog == InitLedgers /\ [][CatalogNext]_vars

\* ------------------------------------------------------ unit deletion
\* PropertyViewSet.destroy: refused while a reservation references the unit
\* (on_delete=PROTECT); otherwise the row goes, and with it the unit's plans
\* (on_delete=CASCADE), which stay in the sequence, detached, as the
\* instances that callers still hold
destroy_property(u) ==
    /\ PropertyExists(u)
    /\ unitLock[u] = 0
    /\ IF ReservationsOf(u) # {}
         THEN UNCHANGED <<unitStatus, plans>>
         ELSE /\ unitStatus' = [unitStatus EXCEPT ![u] = NoRow]
              /\ plans' = [k \in 1..Len(plans) |->
                              IF plans[k].property = u
                                THEN [plans[k] EXCEPT !.property = 0]
                                ELSE plans[k]]
    /\ UNCHANGED <<reservations, payments, signed, unitLock, resLock, today, pc, req>>

\* Service-layer creations and convert_to_sale while units are being deleted
\* from the catalog
DeleteNext ==
    \/ \E p \in Workers :
          \/ \E u \in Units : service_begin(p, u, u, 12000000)
          \/ service_create(p)
          \/ service_create_unit_gone(p)
          \/ service_end_unit_gone(p)
          \/ ConvertToSale(p)
          \/ respond(p)
    \/ \E u \in Units : destroy_property(u)

SpecDelete == InitLedgers /\ [][DeleteNext]_vars

\* -------------------------------------------------------- plan wizard
\* the number of PaymentPlan rows the wizard may add
MaxPlans == 1

\* down_payment_percent, installment_count and interest_rate of a request
CalcPercents == {-1, 0, 25, 100, 101}
CalcCounts == {-1, 0, 1, 7, 12}
CalcRates == {0, 10}

\* The worker that serves the wizard and the calculator
Clerk == CHOOSE p \in Workers : \A q \in Workers : p <= q

\* PropertyViewSet.create_payment_plan: is_valid(raise_exception=True), then
\* serializer.create_payment_plan(property_instance) inserts the template
create_payment_plan(p, u, plan_type, percent, count, rate) ==
    /\ pc[p] = "idle"
    /\ Len(plans) < MaxPlans
    /\ LET error == PaymentPlanCreate_error(plan_type, percent, count, rate)
           request == [NoReq EXCEPT !.op = "create_payment_plan", !.unit = u,
                                    !.calc = <<plan_type, percent, count, rate>>]
       IN  /\ plans' = IF error = "ok"
                          THEN Append(plans,
                                 [property |-> u, plan_type |-> plan_type,
                                  details |-> PaymentPlanCreate_details(u, plan_type,
                                                 percent, count, rate)])
                          ELSE plans
           /\ req' = [req EXCEPT ![p] = [request EXCEPT !.outcome = error]]
    /\ pc' = [pc EXCEPT ![p] = "done"]
    /\ UNCHANGED <<unitStatus, reservations, payments, signed, unitLock, resLock, today>>

\* A call of PropertyService.calculate_payment_plan(property_instance,
\* percent, count, rate): the dict it returns, or the exception it raises
calculate(p, u, percent, count, rate) ==
    /\ pc[p] = "idle"
    /\ LET request == [NoReq EXCEPT !.op = "calculate_payment_plan", !.unit = u,
                                    !.calc = <<VADELI, percent, count, rate>>]
       IN  req' = [req EXCEPT ![p] =
                     IF calculate_payment_plan_raises(count)
                       THEN [request EXCEPT !.outcome = "ZeroDivisionError"]
                       ELSE [request EXCEPT
                               !.outcome = "ok",
                               !.result = calculate_payment_plan(InstallmentBase(u),
                                             percent, count, rate)]]
    /\ pc' = [pc EXCEPT ![p] = "done"]
    /\ UNCHANGED <<db, unitLock, resLock, today>>

\* The catalog before any template exists
InitCalculator ==
    /\ unitStatus = [u \in Units |-> InitialStatus(u)]
    /\ plans = <<>>
    /\ reservations = <<>>
    /\ payments = <<>>
    /\ signed = {}
    /\ unitLock = [u \in Units |-> 0]
    /\ resLock = [r \in ResIds |-> 0]
    /\ today = 0
    /\ pc = [p \in Procs |-> "idle"]
    /\ req = [p \in Procs |-> NoReq]

CalculatorNext ==
    \/ \E u \in Units, percent \in CalcPercents, count \in CalcCounts, rate \in CalcRates :
          \/ \E plan_type \in {PESIN, VADELI} :
                create_payment_plan(Clerk, u, plan_type, percent, count, rate)
          \/ calculate(Clerk, u, percent, count, rate)
    \/ respond(Clerk)

SpecCalculator == InitCalculator /\ [][CalculatorNext]_vars

\* ------------------------------------------------- schedules of templates
\* the largest installment count of a template
MaxCount == 3

\* Percent, count and rate a template of the wizard is computed from
TemplatePercents == {0, 20, 100}
TemplateCounts == 1..MaxCount
TemplateRates == {0, 10}

\* The unit on sale has one installment template, computed by
\* create_payment_plan from any of the wizard's inputs
InitSchedules ==
    /\ unitStatus = [u \in Units |-> InitialStatus(u)]
    /\ \E percent \in TemplatePercents, count \in TemplateCounts, rate \in TemplateRates :
          plans = << [property |-> RaceUnit, plan_type |-> VADELI,
                      details |-> create_payment_plan_details(RaceUnit, percent, count, rate)] >>
    /\ reservations = <<>>
    /\ payments = <<>>
    /\ signed = {}
    /\ unitLock = [u \in Units |-> 0]
    /\ resLock = [r \in ResIds |-> 0]
    /\ today = 0
    /\ pc = [p \in Procs |-> "idle"]
    /\ req = [p \in Procs |-> NoReq]

\* Reservations of that unit from its template, by either creation path, on
\* any day
SchedulesNext ==
    \/ \E p \in Workers :
          \/ validate_create(p, RaceUnit, 1, 12000000)
          \/ create_lock(p)
          \/ create_body(p)
          \/ service_begin(p, RaceUnit, 1, 12000000)
          \/ service_create(p)
          \/ respond(p)
    \/ tick

SpecSchedules == InitSchedules /\ [][SchedulesNext]_vars

\* ---------------------------------------------------- template editing
\* PUT/PATCH /payment-plans/{id}/ writes plan_type and details as sent:
\* PaymentPlanSerializer leaves both writable.  The request bodies are the
\* payloads the wizard would compute for either unit.
EditedPlanTypes == {PESIN, VADELI}
EditedDetails == {PaymentPlanCreate_details(u, plan_type, 25, 1, 10) :
                    u \in Units, plan_type \in EditedPlanTypes}

\* PaymentPlanViewSet.update: get_object() over the active templates, then
\* serializer.save()
PaymentPlan_update(k, plan_type, details) ==
    /\ PlanExists(k)
    /\ plans' = [plans EXCEPT ![k] = [@ EXCEPT !.plan_type = plan_type,
                                                !.details = details]]
    /\ UNCHANGED <<unitStatus, reservations, payments, signed, unitLock, resLock,
                   today, pc, req>>

TemplatesNext ==
    \/ \E p \in Workers :
          \/ validate_create(p, RaceUnit, RaceUnit, 12000000)
          \/ create_lock(p)
          \/ create_body(p)
          \/ Cancel(p)
          \/ respond(p)
    \/ \E k \in 1..Len(plans), plan_type \in EditedPlanTypes, details \in EditedDetails :
          PaymentPlan_update(k, plan_type, details)

SpecTemplates == InitLedgers /\ [][TemplatesNext]_vars

\* -------------------------------------------------- template ownership
\* payment_plan_selected of a request: the sentinels, the ids of the templates
\* that exist, and ids that name no template (0, below -2, above the last id)
OwnershipSelections == (-3)..(Len(InitialPlans) + 2)

OwnershipNext ==
    \E p \in Workers :
       \/ \E u \in Units, sel \in OwnershipSelections :
             \E dep \in DepositAmounts(u, sel) : validate_create(p, u, sel, dep)
       \/ create_lock(p)
       \/ create_body(p)
       \/ Cancel(p)
       \/ respond(p)

SpecOwnership == Init /\ [][OwnershipNext]_vars

\* ------------------------------------------- reservation update endpoint
\* PUT/PATCH /reservations/{id}/ with ReservationSerializer, where status is
\* a writable choice field.  ReservationViewSet does not override update and
\* the settings do not wrap requests in a transaction, so serializer.save()
\* runs Reservation.save() in autocommit.
ReservationStatuses == {AKTIF, SATISA_DONUSTU, IPTAL_EDILDI}

\* get_object(), is_valid() and the setattr of ModelSerializer.update: the
\* in-memory Reservation carries the status that was sent
update_load(p, r, status) ==
    /\ pc[p] = "idle"
    /\ r \in 1..Len(reservations)
    /\ reservations[r].status # NoRow
    /\ pc' = [pc EXCEPT ![p] = "update_write"]
    /\ req' = [req EXCEPT ![p] = [NoReq EXCEPT !.op = "update", !.res = r,
                                   !.unit = reservations[r].property,
                                   !.mem_status = status,
                                   !.mem_notes = reservations[r].notes]]
    /\ UNCHANGED <<db, unitLock, resLock, today>>

\* instance.save(): the UPDATE of every field from the in-memory object,
\* committed on its own; it waits for the reservation's row lock
update_save(p) ==
    /\ pc[p] = "update_write"
    /\ resLock[req[p].res] = 0
    /\ reservations' = [reservations EXCEPT ![req[p].res].status = req[p].mem_status,
                                             ![req[p].res].notes = req[p].mem_notes]
    /\ pc' = [pc EXCEPT ![p] = "update_signal"]
    /\ UNCHANGED <<unitStatus, plans, payments, signed, unitLock, resLock, today, req>>

\* The post_save observer of that save.  Outside a transaction its
\* select_for_update().get() either raises TransactionManagementError, which
\* the observer re-raises (DB_ENGINE postgresql), or reads the row without a
\* lock (DB_ENGINE sqlite3, the default), and then the observer writes the
\* unit's status in a second commit.
update_signal(p) ==
    /\ pc[p] = "update_signal"
    /\ \/ /\ Finish(p, "TransactionManagementError")
          /\ UNCHANGED unitStatus
       \/ /\ unitLock[req[p].unit] = 0
          /\ unitStatus' = [unitStatus EXCEPT ![req[p].unit] =
                               sync_property_status(req[p].mem_status, unitStatus[req[p].unit])]
          /\ Finish(p, "ok")
    /\ UNCHANGED <<plans, reservations, payments, signed, unitLock, resLock, today>>

\* The updates explored are those of reservations that carry fewer than
\* MaxNotes cancellation notes
MaxNotes == 1

UpdateReservation(p) ==
    \/ \E r \in ResIds, status \in ReservationStatuses :
          /\ r \in 1..Len(reservations)
          /\ Len(reservations[r].notes) < MaxNotes
          /\ update_load(p, r, status)
    \/ update_save(p)
    \/ update_signal(p)

UpdateNext ==
    \E p \in Workers :
       \/ validate_create(p, RaceUnit, RaceUnit, 12000000)
       \/ create_lock(p)
       \/ create_body(p)
       \/ ConvertToSale(p)
       \/ Cancel(p)
       \/ UpdateReservation(p)
       \/ respond(p)

SpecUpdate == InitLedgers /\ [][UpdateNext]_vars

\* -------------------------------------------------- reservation deletion
\* Whether the Reservation row with this id is in the table.  A deleted row
\* keeps its place in the sequence, detached from its unit, so that the ids
\* of the other rows stay what they are.
ReservationExists(r) == r \in 1..Len(reservations) /\ reservations[r].status # NoRow

\* DELETE /reservations/{id}/ (ModelViewSet.destroy, permitted to admins):
\* instance.delete() removes the row and, by on_delete=CASCADE, its payments
\* and contracts.  No handler is connected to the deletion, so the unit keeps
\* its status.  The deletions explored are those of reservations no worker
\* holds in memory.
destroy_reservation(r) ==
    /\ ReservationExists(r)
    /\ resLock[r] = 0
    /\ \A p \in Workers : req[p].res # r
    /\ reservations' = [reservations EXCEPT ![r] = [@ EXCEPT !.property = 0,
                                                              !.status = NoRow]]
    /\ payments' = [k \in 1..Len(payments) |->
                       IF k \in PaymentsOf(r)
                         THEN [payments[k] EXCEPT !.reservation = 0]
                         ELSE payments[k]]
    /\ signed' = signed \ {r}
    /\ UNCHANGED <<unitStatus, plans, unitLock, resLock, today, pc, req>>

EraseNext ==
    \/ \E p \in Workers :
          \/ validate_create(p, RaceUnit, RaceUnit, 12000000)
          \/ create_lock(p)
          \/ create_body(p)
          \/ ConvertToSale(p)
          \/ Cancel(p)
          \/ respond(p)
    \/ \E r \in ResIds : destroy_reservation(r)

SpecErase == InitLedgers /\ [][EraseNext]_vars

\* ------------------------------------------------------ remaining amount
\* Reservations of both units, on the unit's template or on a template the
\* creation synthesizes (-1 cash, -2 installment)
RemainingSelections == {-2, -1} \cup (1..NUnits)

RemainingNext ==
    \E p \in Workers :
       \/ \E u \in Units, sel \in RemainingSelections :
             \E dep \in DepositAmounts(u, sel) : validate_create(p, u, sel, dep)
       \/ create_lock(p)
       \/ create_body(p)
       \/ Cancel(p)
       \/ respond(p)

SpecRemaining == InitLedgers /\ [][RemainingNext]_vars

\* ------------------------------------------------------------ lock scope
\* Creations, conversions and cancellations on every unit, each creation on
\* the unit's own template
ScopeNext ==
    \E p \in Workers :
       \/ \E u \in Units : validate_create(p, u, u, 12000000)
       \/ create_lock(p)
       \/ create_body(p)
       \/ ConvertToSale(p)
       \/ Cancel(p)
       \/ respond(p)

SpecScope == InitLedgers /\ [][ScopeNext]_vars

\* ------------------------------------------------------------ lock waits
\* Creations, conversions and cancellations on one unit by every process
WaitsNext ==
    \E p \in Procs :
       \/ validate_create(p, RaceUnit, RaceUnit, 12000000)
       \/ create_lock(p)
       \/ create_body(p)
       \/ ConvertToSale(p)
       \/ Cancel(p)
       \/ respond(p)

SpecWaits == InitLedgers /\ [][WaitsNext]_vars

\* -------------------------------------------------------- observer alone
\* Property.Status
PropertyStatuses == {SATILABILIR, REZERVE, SATILDI, PASIF}

\* One reservation per unit, in any status, on a unit in any status
InitObserver ==
    /\ today = 0
    /\ unitStatus \in [Units -> PropertyStatuses]
    /\ plans = UnitTemplates
    /\ \E statuses \in [Units -> ReservationStatuses] :
          reservations = [u \in Units |->
                            [NewReservation(u, u, 12000000) EXCEPT !.status = statuses[u],
                                                                   !.reservation_date = 0]]
    /\ payments = <<>>
    /\ signed = {}
    /\ unitLock = [u \in Units |-> 0]
    /\ resLock = [r \in ResIds |-> 0]
    /\ pc = [p \in Procs |-> "idle"]
    /\ req = [p \in Procs |-> NoReq]

\* One run of sync_property_status_on_reservation_change for a saved
\* reservation, inside the transaction of the save: the unit row is read
\* under its lock and written if a branch applies.  The request keeps the
\* status that was read.
observer_run(p, r) ==
    /\ pc[p] = "idle"
    /\ r \in 1..Len(reservations)
    /\ LET u == reservations[r].property
       IN  /\ unitLock[u] = 0
           /\ unitStatus' = [unitStatus EXCEPT
                                ![u] = sync_property_status(reservations[r].status,
                                                            unitStatus[u])]
           /\ req' = [req EXCEPT ![p] = [NoReq EXCEPT !.op = "observer", !.res = r,
                                          !.unit = u, !.mem_unit = unitStatus[u],
                                          !.outcome = "ok"]]
    /\ pc' = [pc EXCEPT ![p] = "done"]
    /\ UNCHANGED <<plans, reservations, payments, signed, unitLock, resLock, today>>

ObserverNext ==
    \E p \in Workers :
       \/ \E r \in ResIds : observer_run(p, r)
       \/ respond(p)

SpecObserver == InitObserver /\ [][ObserverNext]_vars

\* ------------------------------------------------------- automatic expiry
\* expiry_date of a creation request: absent, the day of the request, or the
\* day before it
ExpiryDates == {<<>>, <<today>>, <<today - 1>>}

\* ReservationCreateSerializer.is_valid of a request that may carry an
\* expiry_date: the last test of validate() refuses a date in the past
validate_create_expiring(p, u, sel, dep, exp) ==
    /\ pc[p] = "idle"
    /\ LET request == [NoReq EXCEPT !.op = "create", !.unit = u, !.sel = sel]
           error == IF validate_error(u, sel, dep) # "ok" THEN validate_error(u, sel, dep)
                    ELSE IF exp # <<>> /\ exp[1] < today THEN "expiry_past"
                    ELSE "ok"
       IN  IF error = "ok"
             THEN /\ pc' = [pc EXCEPT ![p] = "validated"]
                  /\ req' = [req EXCEPT ![p] = [request EXCEPT !.dep = dep, !.exp = exp,
                                                     !.mem_unit = unitStatus[u]]]
             ELSE /\ pc' = [pc EXCEPT ![p] = "done"]
                  /\ req' = [req EXCEPT ![p] = [request EXCEPT !.outcome = error]]
    /\ UNCHANGED <<db, unitLock, resLock, today>>

\* The ids returned by Reservation.objects.filter(status=AKTIF,
\* expiry_date__lt=today); a NULL expiry_date never matches
expired_reservations(rs, asOf) ==
    {r \in 1..Len(rs) : /\ rs[r].status = AKTIF
                        /\ rs[r].expiry_date # <<>>
                        /\ rs[r].expiry_date[1] < asOf}

\* reason= of the cancel the task calls
ExpiryReason == "Rezervasyon suresi doldu (otomatik iptal)"

\* The loop of check_expired_reservations moves to its next instance (the
\* queryset is ordered by -reservation_date, newest first), or the task
\* returns its count once the instances are used up
expired_loop(p, rows, asOf, count) ==
    IF DOMAIN rows = {}
      THEN /\ pc' = [pc EXCEPT ![p] = "done"]
           /\ req' = [req EXCEPT ![p] = [NoReq EXCEPT !.op = "check_expired",
                                           !.as_of = asOf, !.count = count,
                                           !.outcome = "ok"]]
      ELSE LET r == CHOOSE i \in DOMAIN rows : \A j \in DOMAIN rows : j <= i
           IN  /\ pc' = [pc EXCEPT ![p] = "expire_guard"]
               /\ req' = [req EXCEPT ![p] =
                            [NoReq EXCEPT !.op = "check_expired", !.as_of = asOf,
                                          !.count = count, !.res = r,
                                          !.unit = rows[r].property,
                                          !.reason = ExpiryReason,
                                          !.mem_status = rows[r].status,
                                          !.mem_notes = rows[r].notes,
                                          !.mem_rows = [i \in DOMAIN rows \ {r} |-> rows[i]]]]

\* check_expired_reservations up to the start of its loop: today is read
\* once and the queryset is evaluated once, into Reservation instances
check_expired_select(p) ==
    /\ pc[p] = "idle"
    /\ LET found == expired_reservations(reservations, today)
       IN  expired_loop(p, [r \in found |-> reservations[r]], today, 0)
    /\ UNCHANGED <<db, unitLock, resLock, today>>

\* reservation.cancel(reason=...) of the loop, lines 163-175 of the model:
\* the status test on the instance and the two guard queries.  A refused
\* cancel returns False and the loop goes on.
check_expired_guard(p) ==
    /\ pc[p] = "expire_guard"
    /\ IF cancel_guard_error(p) = "ok"
         THEN /\ pc' = [pc EXCEPT ![p] = "expire_write"]
              /\ UNCHANGED req
         ELSE expired_loop(p, req[p].mem_rows, req[p].as_of, req[p].count)
    /\ UNCHANGED <<db, unitLock, resLock, today>>

\* self.save(update_fields=['status', 'notes']) of that cancel: the UPDATE
\* waits for the reservation's row lock
check_expired_write(p) ==
    /\ pc[p] = "expire_write"
    /\ resLock[req[p].res] = 0
    /\ resLock' = [resLock EXCEPT ![req[p].res] = p]
    /\ pc' = [pc EXCEPT ![p] = "expire_signal"]
    /\ UNCHANGED <<db, unitLock, today, req>>

\* post_save observer of that save, the bulk update of the payments and the
\* commit of the cancel; the task counts the success and goes on
check_expired_signal(p) ==
    /\ pc[p] = "expire_signal"
    /\ LET r == req[p].res
           u == req[p].unit
       IN  /\ unitLock[u] = 0
           /\ reservations' = [reservations EXCEPT
                                 ![r].status = IPTAL_EDILDI,
                                 ![r].notes = Append(req[p].mem_notes, req[p].reason)]
           /\ unitStatus' = [unitStatus EXCEPT
                                ![u] = sync_property_status(IPTAL_EDILDI, unitStatus[u])]
           /\ payments' = [k \in 1..Len(payments) |->
                              IF k \in VoidedBy(r)
                                THEN [payments[k] EXCEPT !.status = IPTAL]
                                ELSE payments[k]]
           /\ resLock' = [resLock EXCEPT ![r] = 0]
    /\ expired_loop(p, req[p].mem_rows, req[p].as_of, req[p].count + 1)
    /\ UNCHANGED <<plans, signed, unitLock, today>>

CheckExpired(p) ==
    \/ check_expired_select(p)
    \/ check_expired_guard(p)
    \/ check_expired_write(p)
    \/ check_expired_signal(p)

\* the payments a mark_as_paid request names here: the first installment of
\* each reservation
FirstInstallments == {k \in 1..Len(payments) : payments[k].installment_number = <<1>>}

\* Reservations with and without an expiry date, made by one clerk who
\* also starts the expiry task, and the requests that may arrive while the
\* task runs: conversions, payments, signed contracts
ExpiryNext ==
    \/ \E u \in Units, exp \in ExpiryDates :
          validate_create_expiring(Clerk, u, u, 12000000, exp)
    \/ create_lock(Clerk)
    \/ create_body(Clerk)
    \/ CheckExpired(Clerk)
    \/ \E p \in Workers : ConvertToSale(p) \/ respond(p)
    \/ \E k \in FirstInstallments : mark_as_paid_view(k, <<0>>, "NAKIT")
    \/ MarkAsSigned
    \/ tick

SpecExpiry == InitLedgers /\ [][ExpiryNext]_vars

\* ------------------------------------------------------------ properties
\* Handlers that have ended and whose response says success
Succeeded(P) == {p \in P : pc[p] = "done" /\ req[p].outcome = "ok"}

\* C1 (mutual exclusion of creation, under SpecRace).  Of the concurrent
\* ReservationCreateSerializer.create attempts on the unit that starts
\* Available, at most one commits at any time; every attempt that has ended
\* either committed or was refused because the unit is no longer available
\* (at validation, where the unit already has its reservation or is not
\* SATILABILIR, or at the re-check under the lock); a committed
\* reservation is Active and its unit Reserved; and once all attempts have
\* ended exactly one has committed, the rows of the database are exactly
\* those of that attempt (one reservation, its payments, its synthesized
\* template if any) and the unit is Reserved.
C1_MutualExclusion ==
    LET rows == ReservationsOf(RaceUnit)
        won == Succeeded(Racers)
    IN  /\ Cardinality(rows) <= 1
        /\ Cardinality(won) = Cardinality(rows)
        /\ \A p \in Racers :
              pc[p] = "done" => req[p].outcome \in {"ok", "conflict", "unavailable", "unique"}
        /\ \A r \in rows : reservations[r].status = AKTIF /\ unitStatus[RaceUnit] = REZERVE
        /\ rows = {} => /\ unitStatus[RaceUnit] = SATILABILIR
                        /\ plans = InitialPlans
                        /\ payments = <<>>
        /\ (\A p \in Racers : pc[p] = "done") =>
              /\ Cardinality(won) = 1
              /\ Len(reservations) = 1
              /\ unitStatus[RaceUnit] = REZERVE
              /\ \A p \in won :
                    /\ Len(plans) = Len(InitialPlans) + (IF req[p].sel < 0 THEN 1 ELSE 0)
                    /\ reservations[1].payment_plan_selected =
                          (IF req[p].sel < 0 THEN Len(plans) ELSE req[p].sel)
                    /\ \A k \in 1..Len(payments) : payments[k].reservation = 1
                    /\ Len(payments) =
                          (IF req[p].sel > 0
                             THEN DecimalOf(Get(plans[req[p].sel].details,
                                                "installment_count", JNum(0)))
                             ELSE 0)

\* All attempts have ended, one committed, and another that had passed
\* validation was refused at the re-check under the lock
C1_Witness ==
    /\ \A p \in Racers : pc[p] = "done"
    /\ Cardinality(Succeeded(Racers)) = 1
    /\ \E p \in Racers : req[p].outcome = "conflict"
    /\ unitStatus[RaceUnit] = REZERVE

\* C2 (status bijection).  In every committed state every reservation in
\* SATISA_DONUSTU has its unit SATILDI, and every unit that is REZERVE or
\* SATILDI has a reservation that is not IPTAL_EDILDI.
C2_StatusBijection ==
    /\ \A r \in 1..Len(reservations) :
          reservations[r].status = SATISA_DONUSTU
             => unitStatus[reservations[r].property] = SATILDI
    /\ \A u \in Units :
          unitStatus[u] \in {REZERVE, SATILDI}
             => \E r \in ReservationsOf(u) : reservations[r].status # IPTAL_EDILDI

\* C3 (terminal states).  A reservation whose persisted status is
\* SATISA_DONUSTU or IPTAL_EDILDI is never written again, and a
\* convert_to_sale or cancel called on it answers invalid-transition and
\* changes nothing.
C3_TerminalStates ==
    [][ /\ \A r \in 1..Len(reservations) :
              reservations[r].status \in {SATISA_DONUSTU, IPTAL_EDILDI}
                 => reservations'[r] = reservations[r]
        /\ \A p \in Workers :
              ( /\ pc[p] = "loaded"
                /\ pc'[p] # "loaded"
                /\ reservations[req[p].res].status \in {SATISA_DONUSTU, IPTAL_EDILDI} )
              => ( /\ pc'[p] = "done"
                   /\ req'[p].outcome = "invalid_transition"
                   /\ UNCHANGED db )
      ]_vars

\* C4 (sold is sticky).  cancel called on a reservation whose persisted
\* status is SATISA_DONUSTU answers invalid-transition, and the unit of such
\* a reservation stays SATILDI.
C4_SoldIsSticky ==
    [][ /\ \A p \in Workers :
              ( /\ pc[p] = "loaded"
                /\ req[p].op = "cancel"
                /\ pc'[p] # "loaded"
                /\ reservations[req[p].res].status = SATISA_DONUSTU )
              => ( /\ pc'[p] = "done"
                   /\ req'[p].outcome = "invalid_transition" )
        /\ \A r \in 1..Len(reservations) :
              ( /\ reservations[r].status = SATISA_DONUSTU
                /\ unitStatus[reservations[r].property] = SATILDI )
              => unitStatus'[reservations[r].property] = SATILDI
      ]_vars

\* C5 (Reserved iff Active).  In every committed state a unit is REZERVE if
\* and only if some reservation that references it is AKTIF.
C5_ReservedIffActive ==
    \A u \in Units :
        unitStatus[u] = REZERVE
           <=> \E r \in ReservationsOf(u) : reservations[r].status = AKTIF

\* A cancel has committed: the reservation is IPTAL_EDILDI and its unit,
\* which was REZERVE while the reservation was AKTIF, is on sale again
C5_Witness ==
    \E p \in Workers :
        /\ pc[p] = "done"
        /\ req[p].op = "cancel"
        /\ req[p].outcome = "ok"
        /\ reservations[req[p].res].status = IPTAL_EDILDI
        /\ unitStatus[req[p].unit] = SATILABILIR

\* C6 (cancel guard under concurrency).  No step turns a reservation into
\* IPTAL_EDILDI while one of its payments is ALINDI, whatever mark_as_paid
\* requests are served between the steps of cancel.
C6_CancelGuardConcurrent ==
    [][ \A r \in 1..Len(reservations) :
            ( /\ reservations[r].status # IPTAL_EDILDI
              /\ reservations'[r].status = IPTAL_EDILDI )
            => ~ \E k \in 1..Len(payments') :
                    /\ payments'[k].reservation = r
                    /\ payments'[k].status = ALINDI
      ]_vars

\* C7 (cancel guard failure is a no-op).  cancel called on a reservation
\* whose persisted status is AKTIF and that has a payment in ALINDI or a
\* signed contract answers with the guard's failure and writes nothing: the
\* reservation's status and notes, every payment and every unit are as
\* before, so that a repeated call meets the same state and answers the same.
C7_CancelGuardNoOp ==
    [][ \A p \in Workers :
            ( /\ pc[p] = "loaded"
              /\ req[p].op = "cancel"
              /\ pc'[p] # "loaded"
              /\ reservations[req[p].res].status = AKTIF
              /\ req[p].mem_status = AKTIF
              /\ \/ \E k \in 1..Len(payments) :
                        /\ payments[k].reservation = req[p].res
                        /\ payments[k].status = ALINDI
                 \/ req[p].res \in signed )
            => ( /\ pc'[p] = "done"
                 /\ req'[p].outcome \in {"guard_paid", "guard_signed"}
                 /\ reservations' = reservations
                 /\ payments' = payments
                 /\ unitStatus' = unitStatus )
      ]_vars

\* Two cancel calls on the same AKTIF reservation were both refused, one for
\* a paid payment and one for a signed contract, and the reservation is
\* still AKTIF with its unit REZERVE
C7_Witness ==
    \E p, q \in Workers :
        /\ pc[p] = "done" /\ req[p].op = "cancel" /\ req[p].outcome = "guard_paid"
        /\ pc[q] = "done" /\ req[q].op = "cancel"
        /\ req[q].outcome \in {"guard_paid", "guard_signed"}
        /\ p # q
        /\ req[q].res = req[p].res
        /\ reservations[req[p].res].status = AKTIF
        /\ unitStatus[req[p].unit] = REZERVE

\* C8 (creation is all-or-nothing, under SpecService).  A creation that ends
\* in failure, through ReservationCreateSerializer.create or through
\* ReservationService.create_reservation_with_payments, leaves no row behind
\* and the unit's status as it was.
C8_CreateAllOrNothing ==
    [][ \A p \in Workers :
            ( /\ pc[p] # "done"
              /\ pc'[p] = "done"
              /\ req'[p].op \in {"create", "service_create"}
              /\ req'[p].outcome # "ok" )
            => UNCHANGED db
      ]_vars

\* C9 (mark_as_paid).  A payment in IPTAL is never written again (the
\* request fails), so a payment voided by cancel never becomes ALINDI; a
\* payment in BEKLENIYOR or GECIKTI that becomes ALINDI carries the date of
\* the request, or the current date.
C9_MarkAsPaid ==
    [][ \A k \in 1..Len(payments) :
            /\ payments[k].status = IPTAL => payments'[k] = payments[k]
            /\ ( /\ payments[k].status \in {BEKLENIYOR, GECIKTI}
                 /\ payments'[k].status = ALINDI )
               => payments'[k].payment_date \in (PaymentDates \ {<<>>}) \cup {<<today>>}
      ]_vars

\* C10 (installment synthesis scenario).  A reservation created with
\* payment_plan_selected = -2 on the unit whose installment price is
\* 600000.00, with the 20 % down payment as deposit, has a remaining amount
\* of 480000.00 and, when it is committed, a ledger of exactly one PESINAT
\* payment (ALINDI, 120000.00) and six TAKSIT payments (BEKLENIYOR, 80000.00
\* each) due 30, 60, ... 180 days after the reservation date.
C10_InstallmentSynthesis ==
    [][ \A p \in Workers :
            ( /\ pc[p] = "locked"
              /\ req[p].sel = -2
              /\ installment_price(req[p].unit) = 60000000
              /\ pc'[p] = "done"
              /\ req'[p].outcome = "ok" )
            => LET r == Len(reservations')
                   row == reservations'[r]
                   plan == plans'[row.payment_plan_selected]
                   expected == create_payment_plan_details(req[p].unit, 20, 6, 0)
                   ledger == {k \in 1..Len(payments') : payments'[k].reservation = r}
               IN  /\ get_remaining_amount(row, plan) = 48000000
                   /\ Cardinality(ledger) = 7
                   /\ Cardinality({k \in ledger :
                         /\ payments'[k].payment_type = PESINAT
                         /\ payments'[k].status = ALINDI
                         /\ payments'[k].amount = 12000000}) = 1
                   /\ \A i \in 1..6 : \E k \in ledger :
                         /\ payments'[k].payment_type = TAKSIT
                         /\ payments'[k].status = BEKLENIYOR
                         /\ payments'[k].amount = 8000000
                         /\ payments'[k].amount = DecimalOf(expected.monthly_installment)
                         /\ payments'[k].due_date = row.reservation_date + InstallmentPeriod * i
      ]_vars

\* A creation call of worker p ends in this step
CreationEnds(p) ==
    /\ pc[p] \in {"locked", "service_called"}
    /\ pc'[p] = "done"

\* A creation call of worker p commits a reservation in this step
CreationCommits(p) ==
    /\ CreationEnds(p)
    /\ req'[p].outcome = "ok"
    /\ Len(reservations') = Len(reservations) + 1

\* C11 (a unit can be reserved again after cancel).  A well-formed
\* ReservationCreateSerializer.create on a unit that is SATILABILIR and whose
\* reservations are all IPTAL_EDILDI succeeds (it is not refused at
\* validation for the rows that exist, and it commits once it holds the
\* lock), and a creation on a unit that has a reservation which is not
\* IPTAL_EDILDI fails.
C11_ReserveAgainAfterCancel ==
    [][ /\ \A p \in Workers :
            ( /\ pc[p] = "locked"
              /\ pc'[p] = "done" )
            => LET u == req[p].unit
                   sel == req[p].sel
               IN  /\ ( /\ unitStatus[u] = SATILABILIR
                        /\ \A r \in ReservationsOf(u) : reservations[r].status = IPTAL_EDILDI
                        /\ sel > 0 => ~InstallmentPaymentsRaises(plans[sel].details) )
                      => req'[p].outcome = "ok"
                   /\ (\E r \in ReservationsOf(u) : reservations[r].status # IPTAL_EDILDI)
                      => req'[p].outcome # "ok"
        /\ \A q \in Workers :
            ( /\ pc[q] = "idle"
              /\ pc'[q] = "done"
              /\ req'[q].op = "create"
              /\ unitStatus[req'[q].unit] = SATILABILIR
              /\ \A r \in ReservationsOf(req'[q].unit) :
                     reservations[r].status = IPTAL_EDILDI )
            => req'[q].outcome # "unique"
      ]_vars

\* C13 (lock before mutate).  When convert_to_sale or cancel tests the
\* reservation's status, and when it starts the write of the new status, the
\* calling transaction holds the row lock of the reservation's unit.
C13_LockBeforeMutate ==
    [][ \A p \in Workers :
            /\ (pc[p] = "loaded" /\ pc'[p] # "loaded")
                  => unitLock[req[p].unit] = p
            /\ (pc'[p] \in {"convert_signal", "cancel_signal"} /\ pc'[p] # pc[p])
                  => unitLock[req[p].unit] = p
      ]_vars

\* the sum of the amounts of the payments of reservation r in the ledger ps
\* that are not IPTAL, over the first n rows
RECURSIVE LedgerTotal(_, _, _)
LedgerTotal(ps, r, n) ==
    IF n = 0 THEN 0
    ELSE LedgerTotal(ps, r, n - 1)
           + (IF ps[n].reservation = r /\ ps[n].status # IPTAL THEN ps[n].amount ELSE 0)

\* C15 (ledger total, under SpecService).  When a creation commits a
\* reservation together with a payment schedule, the amounts of its payments
\* add up to the plan total (get_remaining_amount + deposit_amount) within
\* one minor unit.
C15_LedgerTotal ==
    [][ \A p \in Workers :
            ( /\ CreationCommits(p)
              /\ Len(payments') > Len(payments) )
            => LET r == Len(reservations')
                   row == reservations'[r]
                   plan == plans'[row.payment_plan_selected]
                   plan_total == get_remaining_amount(row, plan) + row.deposit_amount
                   total == LedgerTotal(payments', r, Len(payments'))
               IN  /\ total - plan_total <= 1
                   /\ plan_total - total <= 1
      ]_vars

\* C17 (the observer on a cancelled reservation).  A step that turns a
\* reservation into IPTAL_EDILDI puts its unit on sale only if the unit is
\* REZERVE and otherwise leaves the unit's status alone; and a unit that is
\* SATILDI stays SATILDI in every step, whatever cancel is served.
C17_CancelNeverRevertsSold ==
    [][ /\ \A r \in 1..Len(reservations) :
              ( /\ reservations[r].status # IPTAL_EDILDI
                /\ reservations'[r].status = IPTAL_EDILDI )
              => LET u == reservations[r].property
                 IN  unitStatus'[u] = (IF unitStatus[u] = REZERVE THEN SATILABILIR
                                       ELSE unitStatus[u])
        /\ \A u \in Units : unitStatus[u] = SATILDI => unitStatus'[u] = SATILDI
      ]_vars

\* A cancel served after the conversion (on an instance loaded before it)
\* has committed, and the unit is still SATILDI
C17_Witness ==
    \E p \in Workers :
        /\ pc[p] = "done"
        /\ req[p].op = "cancel"
        /\ req[p].outcome = "ok"
        /\ reservations[req[p].res].status = IPTAL_EDILDI
        /\ unitStatus[req[p].unit] = SATILDI

\* C19 (at most one active reservation, under SpecService).  In every
\* reachable state every unit has at most one reservation in AKTIF.
C19_AtMostOneActive ==
    \A u \in Units :
        Cardinality({r \in ReservationsOf(u) : reservations[r].status = AKTIF}) <= 1

\* A creation for a unit that has an AKTIF reservation, called with an
\* instance of the unit read while it was on sale, was refused by the
\* one-to-one constraint
C19_Witness ==
    \E p \in Workers :
        /\ pc[p] = "done"
        /\ req[p].op = "service_create"
        /\ req[p].outcome = "integrity_error"
        /\ \E r \in ReservationsOf(req[p].unit) : reservations[r].status = AKTIF

\* C20 (down-payment record, under SpecService).  When a creation commits a
\* reservation with an installment schedule from a plan whose
\* down_payment_amount is positive, the ledger of the reservation has
\* exactly one PESINAT payment, of that amount, ALINDI, due and paid on the
\* reservation date, with the reservation's deposit payment method; when
\* down_payment_amount is 0 it has none.
C20_DownPaymentRecord ==
    [][ \A p \in Workers :
            ( /\ CreationCommits(p)
              /\ Len(payments') > Len(payments) )
            => LET r == Len(reservations')
                   row == reservations'[r]
                   plan == plans'[row.payment_plan_selected]
                   down == DecimalOf(Get(plan.details, "down_payment_amount", JNum(0)))
                   records == {k \in 1..Len(payments') :
                                  /\ payments'[k].reservation = r
                                  /\ payments'[k].payment_type = PESINAT}
               IN  /\ down > 0 =>
                         /\ Cardinality(records) = 1
                         /\ \A k \in records :
                               /\ payments'[k].amount = down
                               /\ payments'[k].status = ALINDI
                               /\ payments'[k].due_date = row.reservation_date
                               /\ payments'[k].payment_date = <<row.reservation_date>>
                               /\ payments'[k].payment_method = row.deposit_payment_method
                   /\ down = 0 => records = {}
      ]_vars

\* C16: a cancel(reason) on an Active reservation with no Paid payment and no
\* signed contract is not refused, and its commit sets the reservation to
\* Cancelled, appends the reason to the notes, turns every Pending or Overdue
\* payment of the reservation to Void and changes no other payment, and sets
\* the unit from Reserved to Available, all in the one committing step that
\* leaves every other reservation and unit as it was.
C16_SuccessfulCancel ==
    [][ \A p \in Workers :
            LET r == req[p].res
                u == req[p].unit
                eligible == /\ reservations[r].status = AKTIF
                            /\ req[p].mem_status = AKTIF
                            /\ ~HasPaidPayment(r)
                            /\ r \notin signed
            IN  /\ ( /\ pc[p] = "loaded"
                     /\ req[p].op = "cancel"
                     /\ pc'[p] # "loaded"
                     /\ eligible )
                   => ( /\ pc'[p] = "cancel_write"
                        /\ db' = db )
                /\ ( /\ pc[p] = "cancel_signal"
                     /\ pc'[p] = "done"
                     /\ eligible )
                   => ( /\ req'[p].outcome = "ok"
                        /\ reservations'[r].status = IPTAL_EDILDI
                        /\ reservations'[r].notes =
                               Append(reservations[r].notes, req[p].reason)
                        /\ \A q \in 1..Len(reservations) :
                               q # r => reservations'[q] = reservations[q]
                        /\ Len(reservations') = Len(reservations)
                        /\ Len(payments') = Len(payments)
                        /\ \A k \in 1..Len(payments) :
                               IF /\ payments[k].reservation = r
                                  /\ payments[k].status \in {BEKLENIYOR, GECIKTI}
                                 THEN payments'[k] = [payments[k] EXCEPT !.status = IPTAL]
                                 ELSE payments'[k] = payments[k]
                        /\ unitStatus[u] = REZERVE
                        /\ unitStatus'[u] = SATILABILIR
                        /\ \A v \in Units : v # u => unitStatus'[v] = unitStatus[v]
                        /\ signed' = signed )
      ]_vars

\* A committed cancel whose reservation had an overdue installment, now void
\* like all its payments, while another reservation keeps a pending and an
\* overdue payment
C16_Witness ==
    \E p \in Workers :
        /\ pc[p] = "done"
        /\ req[p].op = "cancel"
        /\ req[p].outcome = "ok"
        /\ reservations[req[p].res].status = IPTAL_EDILDI
        /\ unitStatus[req[p].unit] = SATILABILIR
        /\ PaymentsOf(req[p].res) # {}
        /\ \A k \in PaymentsOf(req[p].res) : payments[k].status = IPTAL
        /\ \E k \in PaymentsOf(req[p].res) : payments[k].due_date < today
        /\ \E q \in 1..Len(reservations) :
               /\ q # req[p].res
               /\ reservations[q].status = AKTIF
               /\ \E k \in PaymentsOf(q) : payments[k].status = BEKLENIYOR
               /\ \E k \in PaymentsOf(q) : payments[k].status = GECIKTI

\* A step in which the observer runs for unit u: the commit of a creation, a
\* convert_to_sale or a cancel whose reservation is of u
ObserverStep(p, u) ==
    /\ req[p].unit = u
    /\ pc[p] \in {"locked", "service_called", "convert_signal", "cancel_signal"}
    /\ pc'[p] = "done"

\* C14: single writer of unit status.  A step that changes the status of a
\* unit some reservation references is a step in which the observer runs for
\* that unit, and the new status is the one the observer computes; and a
\* creation that commits makes no status write of its own (Property.reserve
\* issues no UPDATE).
C14_SingleWriter ==
    [][ /\ \A u \in Units :
              ( /\ unitStatus'[u] # unitStatus[u]
                /\ \E r \in 1..Len(reservations') : reservations'[r].property = u )
              => \E p \in Workers :
                    /\ ObserverStep(p, u)
                    /\ \E st \in {AKTIF, SATISA_DONUSTU, IPTAL_EDILDI} :
                           unitStatus'[u] = sync_property_status(st, unitStatus[u])
        /\ \A p \in Workers :
              ( /\ pc[p] = "locked"
                /\ pc'[p] = "done"
                /\ req'[p].outcome = "ok" )
              => ~reserve_saves(locked_status(p))
      ]_vars

\* C18: a creation never succeeds for a unit whose status, at the step that
\* decides and commits (the row lock held on the serializer path), is not
\* SATILABILIR, and the refused creation leaves the unit's status unchanged.
C18_PostLockStatusDecides ==
    [][ \A p \in Workers :
            ( /\ CreationEnds(p)
              /\ unitStatus[req[p].unit] # SATILABILIR )
            => ( /\ req'[p].outcome # "ok"
                 /\ Len(reservations') = Len(reservations)
                 /\ unitStatus' = unitStatus )
      ]_vars

\* C12: when the observer cannot find the unit of the reservation being
\* saved, its error leaves the observer: the call that saved the reservation
\* goes to its exception handler and not on to the schedule, and nothing of
\* the call is committed.
C12_ObserverReraises ==
    [][ \A p \in Workers :
            ( /\ pc[p] = "service_called"
              /\ pc'[p] # "service_called"
              /\ ~PropertyExists(req[p].unit)
              /\ is_available(req[p].mem_unit) )
            => ( /\ pc'[p] = "service_except"
                 /\ db' = db )
      ]_vars

\* The payments a committing creation adds, as ids of payments'
AddedPayments == (Len(payments) + 1)..Len(payments')

\* C21: a creation that commits a reservation on an installment template with
\* installment_count = N >= 1 adds exactly N TAKSIT payments, numbered 1..N
\* once each, all BEKLENIYOR, each of amount monthly_installment, installment
\* i due 30 days after the reservation date plus 30*(i-1) days.
C21_ScheduleShape ==
    [][ \A p \in Workers :
            CreationCommits(p) =>
               LET r == Len(reservations')
                   row == reservations'[r]
                   plan == plans'[row.payment_plan_selected]
                   n == plan.details.installment_count.v
                   taksit == {k \in AddedPayments : payments'[k].payment_type = TAKSIT}
               IN  ( /\ plan.plan_type = VADELI
                     /\ "installment_count" \in DOMAIN plan.details
                     /\ n >= 1 )
                   => ( /\ Cardinality(taksit) = n
                        /\ \A i \in 1..n :
                              \E k \in taksit :
                                 /\ payments'[k].installment_number = <<i>>
                                 /\ \A j \in taksit :
                                        payments'[j].installment_number = <<i>> => j = k
                        /\ \A k \in taksit :
                              /\ payments'[k].reservation = r
                              /\ payments'[k].status = BEKLENIYOR
                              /\ payments'[k].amount = plan.details.monthly_installment.v
                              /\ \E i \in 1..n :
                                    /\ payments'[k].installment_number = <<i>>
                                    /\ payments'[k].due_date =
                                          row.reservation_date + 30 + 30 * (i - 1) )
      ]_vars

\* A reservation made on a later day from a three-installment template, with
\* its three installments
C21_Witness ==
    \E r \in 1..Len(reservations) :
        /\ reservations[r].reservation_date > 0
        /\ plans[reservations[r].payment_plan_selected].details.installment_count.v = 3
        /\ Cardinality({k \in PaymentsOf(r) : payments[k].payment_type = TAKSIT}) = 3

\* The dates a sweep of the ledger ps can tell apart: the first day, and
\* each due date and the day after it
AsOfDates(ps) ==
    {0} \cup {ps[k].due_date + i : k \in 1..Len(ps), i \in {0, 1}}

\* A step of the bulk sweep that changes the ledger
BulkSweepStep ==
    /\ payments' # payments
    /\ payments' = OverdueSwept(payments, today)
    /\ UNCHANGED <<unitStatus, plans, reservations, signed, unitLock, resLock,
                   today, pc, req>>

\* The step on which worker p's run of the task returns
TaskSweepEnds(p) ==
    /\ pc[p] \in {"idle", "sweeping"}
    /\ pc'[p] = "done"
    /\ req'[p].op = "check_overdue"

\* C22: the overdue sweep is idempotent.  On every ledger and for every date,
\* sweeping the swept ledger again with the same date gives the swept ledger;
\* after a step of the bulk sweep a second one on the same date changes no
\* payment; and when a run of the task returns, no payment is left that a
\* second run on the same date would select.
C22_SweepIdempotent ==
    [][ /\ \A d \in AsOfDates(payments) :
              OverdueSwept(OverdueSwept(payments, d), d) = OverdueSwept(payments, d)
        /\ \A d \in AsOfDates(payments') :
              OverdueSwept(OverdueSwept(payments', d), d) = OverdueSwept(payments', d)
        /\ BulkSweepStep => OverdueSwept(payments', today) = payments'
        /\ \A p \in Workers :
              TaskSweepEnds(p) =>
                 /\ get_overdue_payments(payments', req'[p].as_of) = {}
                 /\ OverdueSwept(payments', req'[p].as_of) = payments'
      ]_vars

\* A run of the task has returned on a later day, leaving a payment GECIKTI
\* next to one that is BEKLENIYOR and not yet due
C22_Witness ==
    /\ \E p \in Workers :
          /\ pc[p] = "done"
          /\ req[p].op = "check_overdue"
          /\ req[p].as_of > 0
    /\ \E k \in 1..Len(payments) : payments[k].status = GECIKTI
    /\ \E k \in 1..Len(payments) :
          payments[k].status = BEKLENIYOR /\ payments[k].due_date >= today

\* A step that is no handler's (no worker moves) and turns a payment GECIKTI:
\* the bulk UPDATE of auto_update_overdue_payments
BulkUpdateStep ==
    /\ pc' = pc
    /\ req' = req
    /\ \E k \in 1..Len(payments) :
          payments[k].status # GECIKTI /\ payments'[k].status = GECIKTI

\* C23: the bulk overdue sweep changes exactly the payments that are
\* BEKLENIYOR with due_date before the date, and only their status, to
\* GECIKTI; every other payment (paid, void, already overdue, or due on or
\* after the date), every reservation, unit and template is unchanged.
C23_SweepFrame ==
    [][ BulkUpdateStep =>
          /\ Len(payments') = Len(payments)
          /\ \A k \in 1..Len(payments) :
                IF payments[k].status = BEKLENIYOR /\ payments[k].due_date < today
                  THEN payments'[k] = [payments[k] EXCEPT !.status = GECIKTI]
                  ELSE payments'[k] = payments[k]
          /\ reservations' = reservations
          /\ unitStatus' = unitStatus
          /\ plans' = plans
          /\ signed' = signed
      ]_vars

\* After the bulk sweep of a ledger that held a paid payment past its due
\* date next to a pending one past its due date: the first is still paid, the
\* second is overdue, and no run of the task is on record
C23_Witness ==
    /\ \A p \in Workers : req[p].op # "check_overdue"
    /\ \E k \in 1..Len(payments) :
          payments[k].status = ALINDI /\ payments[k].due_date < today
    /\ \E k \in 1..Len(payments) :
          payments[k].status = GECIKTI /\ payments[k].due_date > InstallmentPeriod

\* The step on which the wizard or the calculator answers worker p
CalculatorAnswers(p) ==
    /\ pc[p] = "idle"
    /\ pc'[p] = "done"
    /\ req'[p].op \in {"create_payment_plan", "calculate_payment_plan"}

\* The outcomes that are validation errors
ValidationErrors == {"invalid_percent", "invalid_count", "invalid_rate", "percent_required"}

\* C24: computing an installment plan with installment_count < 1 ends in a
\* validation error (no plan, no arithmetic fault), and with a count >= 1 the
\* request is accepted exactly when down_payment_percent is in 0..100, 0 and
\* 100 included; for the calculator and for the wizard alike.
C24_CalculatorInputEdges ==
    [][ \A p \in Workers :
            ( /\ CalculatorAnswers(p)
              /\ req'[p].calc[1] = VADELI )
            => LET percent == req'[p].calc[2]
                   count == req'[p].calc[3]
               IN  /\ count < 1 =>
                         /\ req'[p].outcome \in ValidationErrors
                         /\ req'[p].result = <<>>
                         /\ plans' = plans
                   /\ count >= 1 =>
                         (req'[p].outcome = "ok" <=> percent \in 0..100)
                   /\ (count >= 1 /\ percent \notin 0..100) =>
                         /\ req'[p].outcome \in ValidationErrors
                         /\ req'[p].result = <<>>
                         /\ plans' = plans
      ]_vars

Abs(x) == IF x < 0 THEN -x ELSE x

\* amount is x * m / d to the nearest minor unit (x = q*d + r, so that
\* x*m/d = q*m + r*m/d)
NearestOf(amount, x, m, d) ==
    LET q == x \div d
        r == x % d
    IN  2 * Abs(d * (amount - q * m) - r * m) <= d

\* The three amounts of the claim, for base price B, percent, count n, rate
PlanAmountsRight(details, B, percent, n, rate) ==
    LET down == details.down_payment_amount.v
        remaining == details.remaining_amount.v
        monthly == details.monthly_installment.v
    IN  /\ NearestOf(down, B, percent, 100)
        /\ remaining = B - down
        /\ IF rate = 0
             THEN NearestOf(monthly, remaining, 1, n)
             ELSE NearestOf(monthly, remaining, 100 + rate, 100 * n)

\* C25: for a base price B, a percent in 0..100, a count n >= 1 and a rate,
\* the calculator and the wizard give down payment B*percent/100, remaining
\* B - down payment, and monthly installment remaining/n at rate 0 and
\* remaining*(1 + rate/100)/n otherwise, each to the minor unit; and
\* (1000000.00, 25, 12) gives 250000.00, 750000.00 and 62500.00 at rate 0,
\* 68750.00 at rate 10.
C25_CalculatorResult ==
    [][ /\ \A p \in Workers :
              ( /\ CalculatorAnswers(p)
                /\ req'[p].calc[1] = VADELI
                /\ req'[p].outcome = "ok"
                /\ req'[p].calc[2] \in 0..100
                /\ req'[p].calc[3] >= 1 )
              => LET details == IF req'[p].op = "create_payment_plan"
                                  THEN plans'[Len(plans')].details
                                  ELSE req'[p].result
                 IN  PlanAmountsRight(details, InstallmentBase(req'[p].unit),
                                      req'[p].calc[2], req'[p].calc[3], req'[p].calc[4])
        /\ \A rate \in {0, 10} :
              LET wizard == payment_plan_details(100000000, 25, 12, rate)
                  service == calculate_payment_plan(100000000, 25, 12, rate)
                  monthly == IF rate = 0 THEN 6250000 ELSE 6875000
              IN  /\ wizard.down_payment_amount.v = 25000000
                  /\ wizard.remaining_amount.v = 75000000
                  /\ wizard.monthly_installment.v = monthly
                  /\ service.down_payment_amount.v = 25000000
                  /\ service.remaining_amount.v = 75000000
                  /\ service.monthly_installment.v = monthly
      ]_vars

\* The wizard has created a template with interest whose monthly installment
\* had to be rounded
C25_Witness ==
    /\ pc[Clerk] = "done"
    /\ req[Clerk].op = "create_payment_plan"
    /\ req[Clerk].outcome = "ok"
    /\ req[Clerk].calc = <<VADELI, 25, 7, 10>>
    /\ Len(plans) = 1
    /\ ((plans[1].details.remaining_amount.v % 700) * 110) % 700 # 0

\* A template that a reservation selected
Referenced(k) == \E r \in 1..Len(reservations) :
                    reservations[r].payment_plan_selected = k

\* C26: once a reservation references a template, no operation changes the
\* template's plan type or details, so the remaining amount derived for the
\* reservation stays what it was.
C26_TemplateImmutable ==
    [][\A k \in 1..Len(plans) :
          Referenced(k) =>
             /\ plans'[k].plan_type = plans[k].plan_type
             /\ plans'[k].details = plans[k].details
             /\ \A r \in 1..Len(reservations) :
                   reservations[r].payment_plan_selected = k =>
                      get_remaining_amount(reservations[r], plans'[k])
                         = get_remaining_amount(reservations[r], plans[k])
      ]_vars

\* The template named by a request is of another unit, or there is none
ForeignOrMissing(u, sel) ==
    /\ sel \notin {-1, -2}
    /\ \/ ~PlanExists(sel)
       \/ plans[sel].property # u

\* The errors of ReservationCreateSerializer that reject a request
CreateRejections == {"unique", "unavailable", "plan_not_found", "plan_not_owned",
                     "invalid_plan"}

\* C27: a creation that names a template of another unit, or an id that is
\* neither a template nor -1/-2, ends with a validation error, inserts no
\* reservation and leaves the unit's status as it was.
C27_TemplateOwnership ==
    [][\A p \in Workers :
          ( /\ pc[p] # "done"
            /\ pc'[p] = "done"
            /\ req'[p].op = "create"
            /\ ForeignOrMissing(req'[p].unit, req'[p].sel) )
          => /\ req'[p].outcome \in CreateRejections
             /\ reservations' = reservations
             /\ payments' = payments
             /\ plans' = plans
             /\ unitStatus' = unitStatus
      ]_vars

\* One request for the available unit with the template of the other unit
\* and one with an id that names nothing have been rejected, and the unit is
\* still available
C27_Witness ==
    \E p, q \in Workers :
       /\ pc[p] = "done" /\ req[p].op = "create"
       /\ req[p].sel > 0 /\ PlanExists(req[p].sel)
       /\ plans[req[p].sel].property # req[p].unit
       /\ req[p].outcome = "plan_not_owned"
       /\ unitStatus[req[p].unit] = SATILABILIR
       /\ pc[q] = "done" /\ req[q].op = "create"
       /\ req[q].sel = 0
       /\ req[q].outcome = "invalid_plan"
       /\ reservations = <<>>

\* The reservations whose status a step writes: the inserted ones and the
\* ones whose status differs afterwards
StatusWritten == {r \in 1..Len(reservations') :
                    \/ r > Len(reservations)
                    \/ reservations'[r].status # reservations[r].status}

\* C28: every step that commits a reservation's status (creation, conversion,
\* cancellation, the update endpoint) commits with it the unit status the
\* observer derives from that reservation status.
C28_StatusWriteCarriesObserver ==
    [][\A r \in StatusWritten :
          LET u == reservations'[r].property
          IN  unitStatus'[u] = sync_property_status(reservations'[r].status, unitStatus[u])
      ]_vars

\* C29: no step removes a Reservation record, nor the payments of one: the
\* records only grow, so a unit that is REZERVE or SATILDI keeps the
\* reservation that made it so.
C29_NeverDeleted ==
    [][/\ \A r \in 1..Len(reservations) :
             ReservationExists(r) => reservations'[r].status # NoRow
       /\ \A k \in 1..Len(payments) :
             payments[k].reservation # 0 => payments'[k].reservation # 0
      ]_vars

\* The total price a template states for its plan type, in minor units
PlanTotal(plan) == IF plan.plan_type = PESIN
                     THEN plan.details.cash_price.v
                     ELSE plan.details.installment_price.v

\* C30: the remaining amount of every reservation is the total of its
\* template (cash_price of a cash plan, installment_price of an installment
\* plan) minus the reservation's deposit.
C30_RemainingAmount ==
    \A r \in 1..Len(reservations) :
       LET row == reservations[r]
           plan == plans[row.payment_plan_selected]
       IN  get_remaining_amount(row, plan) = PlanTotal(plan) - row.deposit_amount

\* A cash reservation paid in full and an installment reservation with a
\* deposit exist side by side
C30_Witness ==
    \E r, q \in 1..Len(reservations) :
       /\ plans[reservations[r].payment_plan_selected].plan_type = PESIN
       /\ get_remaining_amount(reservations[r],
                               plans[reservations[r].payment_plan_selected]) = 0
       /\ plans[reservations[q].payment_plan_selected].plan_type = VADELI
       /\ reservations[q].deposit_amount = 12000000
       /\ get_remaining_amount(reservations[q],
                               plans[reservations[q].payment_plan_selected]) > 0

\* The worker is inside a createReservation, convertToSale or cancel call
InCall(p) == pc[p] \notin {"idle", "done"}

\* The next step of the call the worker is in
CallStep(p) ==
    \/ create_lock(p)
    \/ create_body(p)
    \/ convert_to_sale_write(p)
    \/ convert_to_sale_signal(p)
    \/ cancel_guard(p)
    \/ cancel_write(p)
    \/ cancel_signal(p)

C32_PaidIsAbsorbing ==
    [][\A k \in 1..Len(payments) :
          payments[k].status = ALINDI => payments'[k].status = ALINDI
      ]_vars

\* The status changes a unit may go through
AllowedUnitMoves == {<<SATILABILIR, REZERVE>>, <<REZERVE, SATILDI>>, <<REZERVE, SATILABILIR>>}

\* C33: in every step a unit's status stays or moves along
\* SATILABILIR -> REZERVE, REZERVE -> SATILDI or REZERVE -> SATILABILIR; in
\* particular no unit goes from SATILABILIR to SATILDI, leaves SATILDI, or
\* changes while PASIF.
C33_UnitTransitionGraph ==
    [][\A u \in Units :
          \/ unitStatus'[u] = unitStatus[u]
          \/ <<unitStatus[u], unitStatus'[u]>> \in AllowedUnitMoves
      ]_vars

\* C34: in every state every payment of an IPTAL_EDILDI reservation has
\* status IPTAL.
C34_CancelledMeansVoid ==
    \A r \in 1..Len(reservations) :
       reservations[r].status = IPTAL_EDILDI =>
          \A k \in PaymentsOf(r) : payments[k].status = IPTAL

\* The calls a worker's next step waits for: the holder of the unit's row
\* lock (creation, and the observer of a conversion or cancellation), the
\* holder of the reservation's row lock (the UPDATE of a conversion or
\* cancellation), the writers the INSERT of a creation waits for
WaitsFor(p) ==
    LET u == req[p].unit
        r == req[p].res
    IN  IF pc[p] = "validated" /\ (req[p].sel \in {-1, -2} \/ PlanExists(req[p].sel))
          THEN {unitLock[u]} \ {0, p}
        ELSE IF pc[p] \in {"convert_signal", "cancel_signal"}
          THEN {unitLock[u]} \ {0, p}
        ELSE IF pc[p] = "cancel_write"
               \/ (pc[p] = "loaded" /\ req[p].op = "convert" /\ req[p].mem_status = AKTIF)
          THEN {resLock[r]} \ {0, p}
        ELSE IF pc[p] = "locked"
          THEN InsertWaits(p)
        ELSE {}

\* C35: no set of concurrent createReservation, convertToSale and cancel calls
\* reaches a state where each of them waits for a row lock that another call
\* of the set holds.
C35_NoWaitCycle ==
    \A S \in SUBSET Procs :
       S # {} => \E p \in S : WaitsFor(p) \cap S = {}

\* A step that is a run of the observer by p
ObserverRuns(p) == pc[p] = "idle" /\ pc'[p] = "done" /\ req'[p].op = "observer"

\* C36: after a run of the observer for a reservation, a second run for the
\* same reservation would leave the unit as the first did; and a run for an
\* AKTIF reservation on a REZERVE unit, or for a SATISA_DONUSTU reservation
\* on a SATILDI unit, changes nothing.
C36_ObserverIdempotent ==
    [][\A p \in Workers :
          ObserverRuns(p) =>
             LET r == req'[p].res
                 u == req'[p].unit
                 status == reservations[r].status
             IN  /\ sync_property_status(status, unitStatus'[u]) = unitStatus'[u]
                 /\ ( \/ (status = AKTIF /\ unitStatus[u] = REZERVE)
                      \/ (status = SATISA_DONUSTU /\ unitStatus[u] = SATILDI) )
                    => unitStatus' = unitStatus
      ]_vars

\* The observer ran twice for one reservation: the first run changed the
\* unit's status, the second read what the first wrote and left it
C36_Witness ==
    \E p, q \in Workers :
       /\ p # q
       /\ pc[p] = "done" /\ req[p].op = "observer"
       /\ pc[q] = "done" /\ req[q].op = "observer"
       /\ req[p].res = req[q].res
       /\ req[p].mem_unit # unitStatus[req[p].unit]
       /\ req[q].mem_unit = unitStatus[req[q].unit]

\* The three amounts of a computed plan
PlanAmounts(details) == <<details.down_payment_amount.v, details.remaining_amount.v,
                          details.monthly_installment.v>>

\* C37: for every price, percent, count and rate that both the wizard and
\* the calculator accept, the two give the same down payment, remaining
\* amount and monthly installment, whichever of them was asked.
C37_CalculatorsAgree ==
    [][\A p \in Workers :
          ( /\ CalculatorAnswers(p)
            /\ req'[p].calc[1] = VADELI
            /\ PaymentPlanCreate_error(VADELI, req'[p].calc[2], req'[p].calc[3],
                                       req'[p].calc[4]) = "ok"
            /\ ~calculate_payment_plan_raises(req'[p].calc[3]) )
          => LET B == InstallmentBase(req'[p].unit)
                 wizard == payment_plan_details(B, req'[p].calc[2], req'[p].calc[3],
                                                req'[p].calc[4])
                 service == calculate_payment_plan(B, req'[p].calc[2], req'[p].calc[3],
                                                   req'[p].calc[4])
                 answered == IF req'[p].op = "create_payment_plan"
                               THEN plans'[Len(plans')].details
                               ELSE req'[p].result
             IN  /\ PlanAmounts(wizard) = PlanAmounts(service)
                 /\ PlanAmounts(answered) = PlanAmounts(wizard)
      ]_vars

\* The calculator has answered a request that the wizard accepts too and
\* whose monthly installment had to be rounded up
C37_Witness ==
    /\ pc[Clerk] = "done"
    /\ req[Clerk].op = "calculate_payment_plan"
    /\ req[Clerk].outcome = "ok"
    /\ req[Clerk].calc = <<VADELI, 25, 7, 10>>
    /\ PaymentPlanCreate_error(VADELI, 25, 7, 10) = "ok"
    /\ req[Clerk].result.monthly_installment.v
          > req[Clerk].result.total_with_interest.v \div 7

\* A step that ends the creation request of p with the cash sentinel
CashCreationEnds(p) ==
    /\ pc[p] # "done"
    /\ pc'[p] = "done"
    /\ req'[p].op = "create"
    /\ req'[p].sel = -1

\* C38: a creation with payment_plan_selected = -1 that does not succeed
\* writes nothing; one that succeeds had deposit_amount equal to the unit's
\* cash price, inserts one PESIN template of the unit carrying that cash
\* price and one reservation selecting it, inserts no payment, and the
\* reservation's remaining amount is 0.
C38_CashSynthesis ==
    [][\A p \in Workers :
          CashCreationEnds(p) =>
             IF req'[p].outcome # "ok"
               THEN db' = db
               ELSE LET u == req'[p].unit
                        k == Len(plans')
                        r == Len(reservations')
                    IN  /\ req[p].dep = cash_price(u)
                        /\ k = Len(plans) + 1
                        /\ plans'[k].property = u
                        /\ plans'[k].plan_type = PESIN
                        /\ plans'[k].details = [cash_price |-> JNum(cash_price(u))]
                        /\ r = Len(reservations) + 1
                        /\ reservations'[r].property = u
                        /\ reservations'[r].payment_plan_selected = k
                        /\ reservations'[r].deposit_amount = cash_price(u)
                        /\ payments' = payments
                        /\ get_remaining_amount(reservations'[r], plans'[k]) = 0
      ]_vars

\* One cash creation was refused for its deposit and another succeeded
C38_Witness ==
    \E p, q \in Workers :
       /\ pc[p] = "done" /\ req[p].op = "create" /\ req[p].sel = -1
       /\ req[p].outcome = "ok"
       /\ pc[q] = "done" /\ req[q].op = "create" /\ req[q].sel = -1
       /\ req[q].outcome = "deposit_mismatch"
       /\ Len(reservations) = 1
       /\ plans[reservations[1].payment_plan_selected].plan_type = PESIN
       /\ payments = <<>>

\* The expiry task of worker p takes a step
ExpiryTaskStep(p) ==
    /\ req[p].op = "check_expired" \/ req'[p].op = "check_expired"
    /\ pc'[p] # pc[p] \/ req'[p] # req[p]
    /\ pc[p] # "done"

\* The step in which the task's cancel of reservation req[p].res commits
ExpiryCancels(p) == pc[p] = "expire_signal" /\ pc'[p] # "expire_signal"

\* The step in which the task's cancel of reservation req[p].res is refused
ExpiryRefused(p) == pc[p] = "expire_guard" /\ pc'[p] # "expire_write"

\* C39 (automatic expiry).  check_expired_reservations writes only in the
\* commits of its cancel() calls.  Such a commit is on a reservation that is
\* AKTIF with an expiry_date before the task's today, without an ALINDI
\* payment and without a signed contract; it leaves the reservation
\* IPTAL_EDILDI, its unit SATILABILIR and its BEKLENIYOR/GECIKTI payments
\* IPTAL, and every other reservation, payment and unit as it was.  A
\* cancel() the task is refused is on a reservation that has an ALINDI
\* payment or a signed contract, and that is AKTIF with its unit REZERVE.
C39_AutomaticExpiry ==
    [][\A p \in Workers : ExpiryTaskStep(p) =>
          LET r == req[p].res
              u == req[p].unit
          IN  /\ ~ExpiryCancels(p) => db' = db
              /\ ExpiryCancels(p) =>
                    /\ reservations[r].status = AKTIF
                    /\ reservations[r].expiry_date # <<>>
                    /\ reservations[r].expiry_date[1] < req[p].as_of
                    /\ ~HasPaidPayment(r)
                    /\ r \notin signed
                    /\ reservations'[r].status = IPTAL_EDILDI
                    /\ unitStatus'[u] = SATILABILIR
                    /\ \A k \in PaymentsOf(r) :
                          payments'[k] = IF payments[k].status \in {BEKLENIYOR, GECIKTI}
                                           THEN [payments[k] EXCEPT !.status = IPTAL]
                                           ELSE payments[k]
                    /\ \A k \in 1..Len(payments) \ PaymentsOf(r) : payments'[k] = payments[k]
                    /\ \A v \in Units \ {u} : unitStatus'[v] = unitStatus[v]
                    /\ \A i \in 1..Len(reservations) \ {r} : reservations'[i] = reservations[i]
                    /\ Len(reservations') = Len(reservations)
                    /\ Len(payments') = Len(payments)
                    /\ plans' = plans
                    /\ signed' = signed
              /\ ExpiryRefused(p) =>
                    /\ HasPaidPayment(r) \/ r \in signed
                    /\ reservations[r].status = AKTIF
                    /\ unitStatus[u] = REZERVE
      ]_vars
====
